---------------------------- MODULE Spec2Model ----------------------------
(***************************************************************************)
(* A model of the Synra managed MCP gateway.                               *)
(*                                                                         *)
(*   Spec         the gateway POST handler (app/api/mcp/[endpointId])      *)
(*   SpecTrial    the test-connection handler and its trial counter        *)
(*   SpecGuard    the SQL guard, sanitizeSql, as a pure function           *)
(*   SpecAdapter  one tool call of a SQL adapter against its upstream      *)
(*   SpecPath     the gateway with its POST and its GET handler            *)
(*   SpecSeal     encrypt and decrypt of lib/encryption                    *)
(*   SpecCredentials  the credential routes: create, PATCH, DELETE         *)
(*   SpecConnections  concurrent SQL adapter calls and their connections   *)
(*   SpecSetup    concurrent setup-user calls for one user                 *)
(*                                                                         *)
(* A JavaScript string is a sequence of one-character strings; a           *)
(* JavaScript value is a record tagged with its type (field t).            *)
(***************************************************************************)
EXTENDS Integers, Sequences, FiniteSets, Bags, TLC

VARIABLES
    mcp_endpoints,  \* table mcp_endpoints: endpoint id -> row
    credentials,    \* table credentials: credential id -> row
    subscriptions,  \* table subscriptions: organization id -> row
    usage_logs,     \* table usage_logs: row -> number of such rows
    now,            \* the current day
    req,            \* the gateway requests in flight
    res,            \* the response the gateway sent last
    received,       \* the number of gateway requests received
    tc,             \* the test-connection requests in flight
    tests_run,      \* connection tests run by test-connection
    guard,          \* one call of sanitizeSql
    call,           \* one tool call of a SQL adapter
    upstream,       \* what the adapter call sent to its upstream
    seal,           \* one use of lib/encryption
    connections,    \* the upstream connections of concurrent adapter calls
    setup           \* the setup-user calls and the tables they write

vars == <<mcp_endpoints, credentials, subscriptions, usage_logs, now, req, res,
          received, tc, tests_run, guard, call, upstream, seal, connections, setup>>

storeVars == <<mcp_endpoints, credentials, subscriptions, usage_logs, now>>
requestVars == <<req, res, received>>
gatewayVars == <<storeVars, requestVars>>
trialVars == <<tc, tests_run>>
guardVars == <<guard, seal, connections, setup>>
adapterVars == <<call, upstream>>

(***************************************************************************)
(* JavaScript strings and values                                           *)
(***************************************************************************)

LowerCase == <<"a","b","c","d","e","f","g","h","i","j","k","l","m",
               "n","o","p","q","r","s","t","u","v","w","x","y","z">>
UpperCase == <<"A","B","C","D","E","F","G","H","I","J","K","L","M",
               "N","O","P","Q","R","S","T","U","V","W","X","Y","Z">>
Digits == <<"0","1","2","3","4","5","6","7","8","9">>

Range(f) == {f[i] : i \in DOMAIN f}

WhiteSpace == {" ", "\t", "\n"}

LowerLetters == Range(LowerCase)
UpperLetters == Range(UpperCase)
DigitChars == Range(Digits)

\* the upper-case letter of each lower-case letter
UpperOf == [c \in LowerLetters |->
               UpperCase[CHOOSE i \in DOMAIN LowerCase : LowerCase[i] = c]]

\* String.prototype.toUpperCase on one character
toUpperChar(c) == IF c \in LowerLetters THEN UpperOf[c] ELSE c

toUpperCase(s) == [i \in DOMAIN s |-> toUpperChar(s[i])]

\* String.prototype.trim
trim(s) ==
    LET keep == {i \in DOMAIN s : s[i] \notin WhiteSpace}
    IN  IF keep = {} THEN <<>>
        ELSE LET first == CHOOSE i \in keep : \A j \in keep : i <= j
                 last == CHOOSE i \in keep : \A j \in keep : j <= i
             IN  SubSeq(s, first, last)

\* whether p occurs in s at position i
occursAt(s, p, i) ==
    /\ i >= 1
    /\ i + Len(p) - 1 <= Len(s)
    /\ \A j \in DOMAIN p : s[i + j - 1] = p[j]

startsWith(s, p) == occursAt(s, p, 1)

includes(s, p) == \E i \in 1..(Len(s) + 1) : occursAt(s, p, i)

\* the JavaScript values the handlers are handed
Undefined == [t |-> "undefined"]
Null == [t |-> "null"]
NaN == [t |-> "nan"]
Num(n) == [t |-> "number", n |-> n]
Str(s) == [t |-> "string", s |-> s]

\* ToBoolean
Truthy(v) ==
    CASE v.t = "string" -> Len(v.s) > 0
      [] v.t = "number" -> v.n # 0
      [] OTHER -> FALSE

(***************************************************************************)
(* lib/sql-sanitizer                                                       *)
(***************************************************************************)

BLOCKED_KEYWORDS == <<
    <<"I","N","S","E","R","T">>,
    <<"U","P","D","A","T","E">>,
    <<"D","E","L","E","T","E">>,
    <<"D","R","O","P">>,
    <<"T","R","U","N","C","A","T","E">>,
    <<"A","L","T","E","R">>,
    <<"C","R","E","A","T","E">>,
    <<"G","R","A","N","T">>,
    <<"R","E","V","O","K","E">>,
    <<"E","X","E","C">>,
    <<"E","X","E","C","U","T","E">> >>

KW_SELECT == <<"S","E","L","E","C","T">>
KW_WITH == <<"W","I","T","H">>

\* the class \w of a regular expression
isWordChar(c) ==
    c \in LowerLetters \cup UpperLetters \cup DigitChars \cup {"_"}

\* the assertion \b of a regular expression, between s[i-1] and s[i]
wordBoundary(s, i) ==
    LET before == i > 1 /\ isWordChar(s[i - 1])
        after == i <= Len(s) /\ isWordChar(s[i])
    IN  before # after

\* a keyword matched at position i without regard to case (flag i)
matchesAtCaseSensitive(s, keyword, i) == occursAt(s, keyword, i)

matchesAt(s, keyword, i) ==
    /\ i >= 1
    /\ i + Len(keyword) - 1 <= Len(s)
    /\ \A j \in DOMAIN keyword : toUpperChar(s[i + j - 1]) = keyword[j]

\* new RegExp('\\b' + keyword + '\\b', 'i').test(sql)
keywordRegexTest(keyword, s) ==
    \E i \in 1..Len(s) :
        /\ wordBoundary(s, i)
        /\ matchesAt(s, keyword, i)
        /\ wordBoundary(s, i + Len(keyword))

Safe == [safe |-> TRUE, reason |-> "", keyword |-> <<>>]
Unsafe(reason) == [safe |-> FALSE, reason |-> reason, keyword |-> <<>>]

sanitizeSql(sql) ==
    IF sql.t # "string" \/ ~Truthy(sql)
    THEN Unsafe("SQL query is required")
    ELSE
    LET trimmed == trim(sql.s)
        upper == toUpperCase(trimmed)
        hits == {k \in DOMAIN BLOCKED_KEYWORDS :
                    keywordRegexTest(BLOCKED_KEYWORDS[k], sql.s)}
    IN  IF Len(trimmed) = 0
        THEN Unsafe("SQL query is empty")
        ELSE IF ~startsWith(upper, KW_SELECT) /\ ~startsWith(upper, KW_WITH)
        THEN Unsafe("Only SELECT queries are allowed")
        ELSE IF hits # {}
        THEN [safe |-> FALSE, reason |-> "Blocked keyword found: ",
              keyword |-> BLOCKED_KEYWORDS[CHOOSE k \in hits : \A h \in hits : k <= h]]
        ELSE IF includes(sql.s, <<";">>)
        THEN Unsafe("Multiple statements not allowed (semicolons are blocked)")
        ELSE IF includes(sql.s, <<"-","-">>) \/ includes(sql.s, <<"/","*">>)
        THEN Unsafe("SQL comments are not allowed")
        ELSE Safe

\* sanitizeTableName: the name unchanged, or the Error it throws
Returns(v) == [threw |-> FALSE, value |-> v, message |-> <<>>]
Throws(m) == [threw |-> TRUE, value |-> Undefined, message |-> m]

isIdentChar(c) ==
    c \in LowerLetters \cup UpperLetters \cup DigitChars \cup {"_", "."}

MaxIdentLen == 128

sanitizeTableName(name) ==
    IF name.t # "string" \/ ~Truthy(name)
    THEN Throws(<<"Table name is required">>)
    ELSE LET sanitized == SelectSeq(name.s, isIdentChar)
         IN  IF sanitized # name.s
             THEN Throws(<<"Invalid table name: ", name.s>>)
             ELSE IF Len(sanitized) = 0 \/ Len(sanitized) > MaxIdentLen
             THEN Throws(<<"Invalid table name length">>)
             ELSE Returns(Str(sanitized))

(***************************************************************************)
(* The strings the guard is called with: concatenations of fragments       *)
(***************************************************************************)

MaxFrags == 3

Fragments == {
    <<"S","E","L","E","C","T">>,
    <<"s","e","l","e","c","t">>,
    <<"W","i","t","h">>,
    <<"D","R","O","P">>,
    <<"d","r","o","p">>,
    <<"e","x","e","c">>,
    <<"u","t","e">>,
    <<"x">>,
    <<"_">>,
    <<" ">>,
    <<";">>,
    <<"-">>,
    <<"/">>,
    <<"*">> }

RECURSIVE Concats(_)
Concats(n) ==
    IF n = 0 THEN {<<>>}
    ELSE LET shorter == Concats(n - 1)
         IN  shorter \cup {p \o f : p \in shorter, f \in Fragments}

SqlTexts == Concats(MaxFrags)

SqlInputs == {Str(s) : s \in SqlTexts} \cup {Undefined, Null, Num(1)}

NoCheck == [safe |-> FALSE, reason |-> "(not called)", keyword |-> <<>>]

(***************************************************************************)
(* SpecGuard: sanitizeSql applied to each input                            *)
(***************************************************************************)

GuardIdle == [pc |-> "idle", sql |-> Undefined, check |-> NoCheck]

SanitizeSqlCall ==
    /\ guard.pc = "call"
    /\ guard' = [guard EXCEPT !.pc = "return", !.check = sanitizeSql(guard.sql)]
    /\ UNCHANGED <<seal, connections, setup, gatewayVars, trialVars, adapterVars>>

(***************************************************************************)
(* lib/mcp-handlers: the SQL adapters                                      *)
(*                                                                         *)
(* A statement is the sequence of the pieces its template literal joins:   *)
(* text the adapter wrote, or a value interpolated as it stands.           *)
(***************************************************************************)

MAX_ROWS == 500

Obj(entries) == [t |-> "object", entries |-> entries]

\* ToBoolean of a tool argument
argTruthy(v) == v.t = "object" \/ Truthy(v)

\* a || b
orElse(a, b) == IF argTruthy(a) THEN a ELSE b

\* the value of a string of decimal digits
RECURSIVE digitsValue(_)
digitsValue(s) ==
    IF Len(s) = 0 THEN 0
    ELSE 10 * digitsValue(SubSeq(s, 1, Len(s) - 1))
         + (CHOOSE d \in DOMAIN Digits : Digits[d] = s[Len(s)]) - 1

\* ToNumber, on the values and the decimal strings the model draws
toNumber(v) ==
    CASE v.t = "number" -> v
      [] v.t = "null" -> Num(0)
      [] v.t = "string" ->
            LET trimmed == trim(v.s)
            IN  IF \A i \in DOMAIN trimmed : trimmed[i] \in DigitChars
                THEN Num(digitsValue(trimmed))
                ELSE NaN
      [] OTHER -> NaN

\* Math.min(a, b)
mathMin(a, b) ==
    LET x == toNumber(a)
        y == toNumber(b)
    IN  IF x.t = "nan" \/ y.t = "nan" THEN NaN
        ELSE IF x.n <= y.n THEN x ELSE y

\* String.prototype.split on a one-character separator
split(s, sep) ==
    LET cuts == {i \in DOMAIN s : s[i] = sep}
        n == Cardinality(cuts)
        cut(k) == IF k = 0 THEN 0
                  ELSE IF k = n + 1 THEN Len(s) + 1
                  ELSE CHOOSE i \in cuts : Cardinality({j \in cuts : j < i}) = k - 1
    IN  [k \in 1..(n + 1) |-> SubSeq(s, cut(k - 1) + 1, cut(k) - 1)]

nonEmpty(s) == Len(s) > 0

\* params.select.split(',').map((c) => c.trim()).filter(Boolean)
selectColumns(select) ==
    LET parts == split(select.s, ",")
    IN  SelectSeq([i \in DOMAIN parts |-> trim(parts[i])], nonEmpty)

Code(text) == [src |-> "code", text |-> text, value |-> Undefined]
Arg(v) == [src |-> "arg", text |-> "", value |-> v]

RECURSIVE joinPieces(_, _)
joinPieces(groups, sep) ==
    IF Len(groups) = 0 THEN <<>>
    ELSE IF Len(groups) = 1 THEN groups[1]
    ELSE groups[1] \o <<Code(sep)>> \o joinPieces(Tail(groups), sep)

\* the first Error thrown by a sequence of sanitizeTableName calls, if any
firstThrown(checks) ==
    LET thrown == {i \in DOMAIN checks : checks[i].threw}
    IN  IF thrown = {} THEN Returns(Undefined)
        ELSE checks[CHOOSE i \in thrown : \A j \in thrown : i <= j]

\* the SELECT list: each column validated, then quoted
selectCols(params, open, close) ==
    IF argTruthy(params.select) /\ params.select # Str(<<"*">>)
    THEN LET cols == selectColumns(params.select)
         IN  [checks |-> [i \in DOMAIN cols |-> sanitizeTableName(Str(cols[i]))],
              pieces |-> joinPieces(
                  [i \in DOMAIN cols |-> <<Code(open), Arg(Str(cols[i])), Code(close)>>],
                  ", ")]
    ELSE [checks |-> <<>>, pieces |-> <<Code("*")>>]

filterEntries(params) ==
    IF argTruthy(params.filters) /\ params.filters.t = "object"
    THEN params.filters.entries
    ELSE <<>>

\* the filters whose value is bound as a parameter, in order
boundEntries(entries) == SelectSeq(entries, LAMBDA e : e[2] # Null)

\* the number of bound values pushed before entry i
boundBefore(entries, i) == Cardinality({j \in 1..(i - 1) : entries[j][2] # Null})

\* the WHERE clause; placeholder[k] is the k-th bound parameter's marker
whereStr(entries, open, close, placeholder) ==
    IF Len(entries) = 0 THEN <<>>
    ELSE <<Code("WHERE ")>> \o joinPieces(
            [i \in DOMAIN entries |->
                IF entries[i][2] = Null
                THEN <<Code(open), Arg(entries[i][1]), Code(close), Code(" IS NULL")>>
                ELSE <<Code(open), Arg(entries[i][1]), Code(close), Code(" = "),
                       Code(placeholder[boundBefore(entries, i) + 1])>>],
            " AND ")

filterChecks(entries) == [i \in DOMAIN entries |-> sanitizeTableName(entries[i][1])]

orderDir(params) ==
    IF params.order_direction = Str(<<"d","e","s","c">>) THEN "DESC" ELSE "ASC"

orderStr(params, open, close, default) ==
    IF argTruthy(params.order_by)
    THEN [checks |-> <<sanitizeTableName(params.order_by)>>,
          pieces |-> <<Code("ORDER BY "), Code(open), Arg(params.order_by), Code(close),
                       Code(" "), Code(orderDir(params))>>]
    ELSE [checks |-> <<>>, pieces |-> default]

Statement(tool, text, values) == [tool |-> tool, text |-> text, values |-> values]

\* what queryTable hands its driver, or the Error a validation throws
builtQuery(nameCheck, cols, entries, order, text, values) ==
    LET thrown == firstThrown(<<nameCheck>> \o cols.checks
                              \o filterChecks(entries) \o order.checks)
    IN  IF thrown.threw THEN thrown
        ELSE Returns(Statement("query_table", text, values))

pgPlaceholder == <<"$1", "$2", "$3">>
mysqlPlaceholder == <<"?", "?", "?">>
mssqlPlaceholder == <<"@p0", "@p1", "@p2">>

\* postgresql.ts queryTable
pgQueryTable(params) ==
    LET safeName == sanitizeTableName(params.table_name)
        limit == mathMin(orElse(params.limit, Num(50)), Num(MAX_ROWS))
        offset == orElse(params.offset, Num(0))
        cols == selectCols(params, "\"", "\"")
        entries == filterEntries(params)
        order == orderStr(params, "\"", "\"", <<>>)
    IN  builtQuery(safeName, cols, entries, order,
            <<Code("SELECT ")>> \o cols.pieces
            \o <<Code(" FROM \""), Arg(safeName.value), Code("\" ")>>
            \o whereStr(entries, "\"", "\"", pgPlaceholder)
            \o <<Code(" ")>> \o order.pieces
            \o <<Code(" LIMIT "), Arg(limit), Code(" OFFSET "), Arg(offset)>>,
            [i \in DOMAIN boundEntries(entries) |-> boundEntries(entries)[i][2]])

\* the identifier quote of MySQL
BackTick == "(backtick)"

\* mysql.ts queryTable
mysqlQueryTable(params) ==
    LET safeName == sanitizeTableName(params.table_name)
        limit == mathMin(orElse(params.limit, Num(50)), Num(MAX_ROWS))
        offset == orElse(params.offset, Num(0))
        cols == selectCols(params, BackTick, BackTick)
        entries == filterEntries(params)
        order == orderStr(params, BackTick, BackTick, <<>>)
    IN  builtQuery(safeName, cols, entries, order,
            <<Code("SELECT ")>> \o cols.pieces
            \o <<Code(" FROM "), Code(BackTick), Arg(safeName.value),
                 Code(BackTick), Code(" ")>>
            \o whereStr(entries, BackTick, BackTick, mysqlPlaceholder)
            \o <<Code(" ")>> \o order.pieces
            \o <<Code(" LIMIT ? OFFSET ?")>>,
            [i \in DOMAIN boundEntries(entries) |-> boundEntries(entries)[i][2]]
            \o <<limit, offset>>)

\* mssql.ts queryTable: [schema].[table], or [dbo].[table]
bracketName(safeName) ==
    LET parts == IF includes(safeName.s, <<".">>)
                 THEN [i \in DOMAIN split(safeName.s, ".") |->
                          trim(split(safeName.s, ".")[i])]
                 ELSE <<safeName.s>>
    IN  IF Len(parts) > 1
        THEN joinPieces([i \in DOMAIN parts |->
                            <<Code("["), Arg(Str(parts[i])), Code("]")>>], ".")
        ELSE <<Code("[dbo].["), Arg(safeName), Code("]")>>

mssqlQueryTable(params) ==
    LET safeName == sanitizeTableName(params.table_name)
        limit == mathMin(orElse(params.limit, Num(50)), Num(MAX_ROWS))
        offset == orElse(params.offset, Num(0))
        cols == selectCols(params, "[", "]")
        entries == filterEntries(params)
        order == orderStr(params, "[", "]", <<Code("ORDER BY (SELECT NULL)")>>)
    IN  builtQuery(safeName, cols, entries, order,
            <<Code("SELECT ")>> \o cols.pieces
            \o <<Code(" FROM ")>>
            \o (IF safeName.threw THEN <<>> ELSE bracketName(safeName.value))
            \o <<Code(" ")>> \o whereStr(entries, "[", "]", mssqlPlaceholder)
            \o <<Code(" ")>> \o order.pieces
            \o <<Code(" OFFSET "), Arg(offset), Code(" ROWS FETCH NEXT "), Arg(limit),
                 Code(" ROWS ONLY")>>,
            [i \in DOMAIN boundEntries(entries) |-> boundEntries(entries)[i][2]])

\* the decimal digits of a natural number
RECURSIVE natToDigits(_)
natToDigits(n) ==
    IF n < 10 THEN <<Digits[n + 1]>>
    ELSE natToDigits(n \div 10) \o <<Digits[(n % 10) + 1]>>

\* ToString of a number or a string
toString(v) ==
    CASE v.t = "string" -> v.s
      [] v.t = "number" -> IF v.n < 0 THEN <<"-">> \o natToDigits(-v.n)
                           ELSE natToDigits(v.n)
      [] OTHER -> <<"N","a","N">>

\* a + b: concatenation when either side is a string
plus(a, b) ==
    IF a.t = "string" \/ b.t = "string" THEN Str(toString(a) \o toString(b))
    ELSE IF a.t = "nan" \/ b.t = "nan" THEN NaN
    ELSE Num(a.n + b.n)

\* a - b
minus(a, b) ==
    LET x == toNumber(a)
        y == toNumber(b)
    IN  IF x.t = "nan" \/ y.t = "nan" THEN NaN ELSE Num(x.n - y.n)

\* supabase.ts queryTable: a PostgREST request
supabaseQueryTable(params) ==
    LET safeName == sanitizeTableName(params.table_name)
        limit == mathMin(orElse(params.limit, Num(50)), Num(MAX_ROWS))
        offset == orElse(params.offset, Num(0))
        entries == IF argTruthy(params.filters) THEN params.filters.entries ELSE <<>>
        operator(value) ==
            IF value = Null THEN " is "
            ELSE IF value.t = "string" /\ startsWith(value.s, <<"%">>) THEN " ilike "
            ELSE " eq "
    IN  IF safeName.threw THEN safeName
        ELSE Returns(Statement("query_table",
                <<Code("from "), Arg(safeName.value),
                  Code(" select "), Arg(orElse(params.select, Str(<<"*">>)))>>
                \o joinPieces([i \in DOMAIN entries |->
                        <<Code(operator(entries[i][2])), Arg(entries[i][1]),
                          Arg(entries[i][2])>>], "")
                \o (IF argTruthy(params.order_by)
                    THEN <<Code(" order "), Arg(params.order_by),
                           Code(IF params.order_direction # Str(<<"d","e","s","c">>)
                                THEN " ascending" ELSE " descending")>>
                    ELSE <<>>)
                \o <<Code(" range "), Arg(offset),
                     Arg(minus(plus(offset, limit), Num(1)))>>,
                <<>>))

\* executeSql: the statement handed to the driver, or the Error thrown
\* executeSql without the call of sanitizeSql
unguardedSql(sql) == Returns(Statement("execute_sql", <<Arg(sql)>>, <<>>))

guardedSql(sql) ==
    LET check == sanitizeSql(sql)
    IN  IF ~check.safe
        THEN Throws(<<"SQL rejected: ", check.reason, check.keyword>>)
        ELSE Returns(Statement("execute_sql", <<Arg(sql)>>, <<>>))

pgExecuteSql(sql) == guardedSql(sql)
mysqlExecuteSql(sql) == guardedSql(sql)
mssqlExecuteSql(sql) == guardedSql(sql)
supabaseExecuteSql(sql) == guardedSql(sql)

SqlAdapters == {"postgresql", "mysql", "mssql"}
Adapters == SqlAdapters \cup {"supabase"}

executeSqlOf(adapter, sql) ==
    CASE adapter = "postgresql" -> pgExecuteSql(sql)
      [] adapter = "mysql" -> mysqlExecuteSql(sql)
      [] adapter = "mssql" -> mssqlExecuteSql(sql)
      [] adapter = "supabase" -> supabaseExecuteSql(sql)

queryTableOf(adapter, params) ==
    CASE adapter = "postgresql" -> pgQueryTable(params)
      [] adapter = "mysql" -> mysqlQueryTable(params)
      [] adapter = "mssql" -> mssqlQueryTable(params)
      [] adapter = "supabase" -> supabaseQueryTable(params)

\* describeTable: the table name is validated, then bound as a parameter
describeTableOf(adapter, tableName) ==
    LET safeName == sanitizeTableName(tableName)
    IN  IF safeName.threw THEN safeName
        ELSE Returns(Statement("describe_table",
                <<Code("SELECT column_name, ... FROM information_schema.columns")>>,
                IF adapter = "supabase" THEN <<>> ELSE <<safeName.value>>))

listTablesOf(adapter) ==
    Statement("list_tables",
        <<Code("SELECT table_name FROM information_schema.tables")>>, <<>>)

(***************************************************************************)
(* The tool calls the model draws                                          *)
(***************************************************************************)

MaxCallFrags == 2

TableNameArgs == {Undefined, Str(<<"t">>), Str(<<"s", ".", "t">>), Str(<<"t", ";">>)}
SelectArgs == {Undefined, Str(<<"a", ",", " ", "b">>), Str(<<"a", ",", "\"">>)}
FilterArgs == {Undefined,
               Obj(<< <<Str(<<"a">>), Num(1)>> >>),
               Obj(<< <<Str(<<"a">>), Null>>, <<Str(<<"b">>), Str(<<"'", ";">>)>> >>),
               Obj(<< <<Str(<<"a", "\"">>), Num(1)>> >>)}
LimitArgs == {Undefined, Num(-1), Num(10), Num(501), Str(<<"7">>), Str(<<"1", ";">>)}
OffsetArgs == {Undefined, Num(5), Str(<<"5">>), Str(<<"0", ";", "x">>)}
OrderByArgs == {Undefined, Str(<<"a">>), Str(<<"a", ";">>)}
OrderDirectionArgs == {Undefined, Str(<<"d","e","s","c">>), Str(<<"x", ";">>)}
\* SELECT 1; DROP TABLE users
SelectThenDrop ==
    <<"S","E","L","E","C","T"," ","1",";"," ","D","R","O","P"," ","T","A","B","L","E",
      " ","u","s","e","r","s">>

\* SELECT 1; SELECT 2
SelectTwice ==
    <<"S","E","L","E","C","T"," ","1",";"," ","S","E","L","E","C","T"," ","2">>

SqlArgs ==
    {Str(s) : s \in Concats(MaxCallFrags) \cup {SelectThenDrop, SelectTwice}}
    \cup {Undefined, Num(1)}

NoArgs == [table_name |-> Undefined, select |-> Undefined, filters |-> Undefined,
           limit |-> Undefined, offset |-> Undefined, order_by |-> Undefined,
           order_direction |-> Undefined, sql |-> Undefined]

ToolCalls ==
    {[toolName |-> n, args |-> NoArgs] : n \in {"list_tables", "drop_table"}}
    \cup {[toolName |-> "describe_table", args |-> [NoArgs EXCEPT !.table_name = tn]] :
            tn \in TableNameArgs}
    \cup {[toolName |-> "execute_sql", args |-> [NoArgs EXCEPT !.sql = s]] : s \in SqlArgs}
    \cup {[toolName |-> "query_table",
           args |-> [table_name |-> tn, select |-> se, filters |-> f, limit |-> l,
                     offset |-> o, order_by |-> ob, order_direction |-> od,
                     sql |-> Undefined]] :
            tn \in TableNameArgs, se \in SelectArgs, f \in FilterArgs, l \in LimitArgs,
            o \in OffsetArgs, ob \in OrderByArgs, od \in OrderDirectionArgs}

NoResult == [status |-> "none", error |-> <<>>]
Success == [status |-> "success", error |-> <<>>]
Failure(message) == [status |-> "error", error |-> message]
Raised(message) == [status |-> "raised", error |-> message]

(***************************************************************************)
(* SpecAdapter: one tool call handled by one adapter                       *)
(*                                                                         *)
(* upstream records every request the adapter hands its driver or fetch.   *)
(***************************************************************************)

KnownTools == {"list_tables", "describe_table", "query_table", "execute_sql"}

\* the switch is entered: after connect, or at once where there is no connection
Ready ==
    call.pc = (IF call.adapter = "supabase" THEN "start" ELSE "connected")

\* return through the finally block, which closes the connection
Finish(result) ==
    call' = [call EXCEPT !.pc = "done", !.result = result,
                         !.conn = IF call.adapter = "supabase" THEN "none" ELSE "closed"]

Send(statement) ==
    /\ upstream' = Append(upstream, statement)
    /\ call' = [call EXCEPT !.pc = "awaiting"]

\* a tool implementation up to its first await
Attempt(built) ==
    IF built.threw
    THEN Finish(Failure(built.message)) /\ UNCHANGED upstream
    ELSE Send(built.value)

\* client.connect() inside the try (postgresql); createConnection and
\* sql.connect before it (mysql, mssql)
Connect ==
    /\ call.pc = "start"
    /\ call.adapter \in SqlAdapters
    /\ \E ok \in BOOLEAN :
        IF ok THEN call' = [call EXCEPT !.pc = "connected", !.conn = "open"]
        ELSE IF call.adapter = "postgresql"
        THEN Finish(Failure(<<"connect failed">>))
        ELSE call' = [call EXCEPT !.pc = "done",
                                  !.result = Raised(<<"connect failed">>)]
    /\ UNCHANGED <<upstream, gatewayVars, trialVars, guardVars>>

ListTables ==
    /\ Ready
    /\ call.toolName = "list_tables"
    /\ Send(listTablesOf(call.adapter))
    /\ UNCHANGED <<gatewayVars, trialVars, guardVars>>

DescribeTable ==
    /\ Ready
    /\ call.toolName = "describe_table"
    /\ IF ~argTruthy(call.args.table_name)
       THEN Finish(Failure(<<"table_name is required">>)) /\ UNCHANGED upstream
       ELSE Attempt(describeTableOf(call.adapter, call.args.table_name))
    /\ UNCHANGED <<gatewayVars, trialVars, guardVars>>

QueryTable ==
    /\ Ready
    /\ call.toolName = "query_table"
    /\ IF ~argTruthy(call.args.table_name)
       THEN Finish(Failure(<<"table_name is required">>)) /\ UNCHANGED upstream
       ELSE Attempt(queryTableOf(call.adapter, call.args))
    /\ UNCHANGED <<gatewayVars, trialVars, guardVars>>

ExecuteSql ==
    /\ Ready
    /\ call.toolName = "execute_sql"
    /\ IF ~argTruthy(call.args.sql)
       THEN Finish(Failure(<<"sql is required">>)) /\ UNCHANGED upstream
       ELSE Attempt(executeSqlOf(call.adapter, call.args.sql))
    /\ UNCHANGED <<gatewayVars, trialVars, guardVars>>

UnknownTool ==
    /\ Ready
    /\ call.toolName \notin KnownTools
    /\ Finish(Failure(<<"Unknown tool: ", call.toolName>>))
    /\ UNCHANGED <<upstream, gatewayVars, trialVars, guardVars>>

\* the fallbacks of supabase.ts listTables: a second and a third request
ListTablesFallback ==
    /\ call.pc = "awaiting"
    /\ call.adapter = "supabase"
    /\ call.toolName = "list_tables"
    /\ Len(upstream) < 3
    /\ upstream' = Append(upstream, listTablesOf(call.adapter))
    /\ UNCHANGED <<call, gatewayVars, trialVars, guardVars>>

\* the upstream answers, or the request fails
Outcomes == {"rows", "empty", "not_found", "error"}

resultOf(c, outcome) ==
    CASE outcome = "error" -> Failure(<<"upstream error">>)
      [] outcome = "empty" /\ c.toolName = "describe_table" ->
            Failure(<<"Table not found: ", c.args.table_name.s>>)
      [] outcome = "not_found" /\ ~(c.adapter = "supabase" /\ c.toolName = "execute_sql") ->
            Failure(<<"upstream error">>)
      [] OTHER -> Success

Reply ==
    /\ call.pc = "awaiting"
    /\ \E outcome \in Outcomes : Finish(resultOf(call, outcome))
    /\ UNCHANGED <<upstream, gatewayVars, trialVars, guardVars>>

AdapterNext ==
    \/ Connect
    \/ ListTables
    \/ DescribeTable
    \/ QueryTable
    \/ ExecuteSql
    \/ UnknownTool
    \/ ListTablesFallback
    \/ Reply

EmptyTable == <<>>

CallIdle == [pc |-> "idle"]

SealIdle == [pc |-> "idle"]

NoConnections == [pc |-> "idle"]

NoSetup == [pc |-> "idle"]

(***************************************************************************)
(* lib/encryption                                                          *)
(*                                                                         *)
(* A stored string is the sequence of the parts split(':') gives.  The     *)
(* cipher text and the tag of AES-256-GCM are records of what they were    *)
(* computed from.                                                          *)
(***************************************************************************)

ENCRYPTION_KEY == "master key"

\* a string without ':', as split(':') gives it
PlainText(s) == [parts |-> <<s>>]

\* crypto.pbkdf2Sync(process.env.ENCRYPTION_KEY, salt, ...)
pbkdf2Sync(master, salt) == <<master, salt>>

\* cipher.update(text, 'utf8', 'hex'): a string that is not well-formed
\* UTF-16 is written with U+FFFD in place of its lone surrogate
IllFormed == [parts |-> <<"\\uD800">>]

utf8Write(text) == IF text = IllFormed THEN [parts |-> <<"\\uFFFD">>] ELSE text

\* cipher.update + cipher.final: the bytes of the text under the key and IV
cipherText(key, iv, text) == [key |-> key, iv |-> iv, text |-> utf8Write(text)]

\* cipher.getAuthTag(): the tag of the cipher text under the key and IV
getAuthTag(key, iv, encrypted) == [key |-> key, iv |-> iv, tagOf |-> encrypted]

\* decipher.update(encrypted, 'hex', 'utf8'): the text when the cipher text
\* was made under this key and IV, other bytes else
decipherUpdate(key, iv, encrypted) ==
    IF encrypted.key = key /\ encrypted.iv = iv
    THEN encrypted.text
    ELSE [parts |-> <<"\\uFFFD">>]

\* encrypt under a master key, with the salt and the IV it drew
encryptUnder(master, salt, iv, text) ==
    LET key == pbkdf2Sync(master, salt)
        encrypted == cipherText(key, iv, text)
    IN  [parts |-> <<salt, iv, encrypted, getAuthTag(key, iv, encrypted)>>]

encrypt(salt, iv, text) == encryptUnder(ENCRYPTION_KEY, salt, iv, text)

\* decrypt without the check of the authentication tag
decryptUnverified(master, encryptedText) ==
    LET parts == encryptedText.parts
    IN  IF Len(parts) # 4
        THEN Throws(<<"Invalid encrypted text format">>)
        ELSE Returns(decipherUpdate(pbkdf2Sync(master, parts[1]), parts[2], parts[3]))

\* decrypt under a master key: decipher.final throws unless the tag is the
\* tag of the cipher text under the derived key and the IV
decryptUnder(master, encryptedText) ==
    LET parts == encryptedText.parts
    IN  IF Len(parts) # 4
        THEN Throws(<<"Invalid encrypted text format">>)
        ELSE LET key == pbkdf2Sync(master, parts[1])
             IN  IF parts[4] = getAuthTag(key, parts[2], parts[3])
                 THEN Returns(decipherUpdate(key, parts[2], parts[3]))
                 ELSE Throws(<<"Unsupported state or unable to authenticate data">>)

decrypt(encryptedText) == decryptUnder(ENCRYPTION_KEY, encryptedText)

\* route.ts decryptCredentialConfig: a value that does not decrypt is used as-is
decryptCredentialConfig(config) ==
    [key \in DOMAIN config |->
        IF decrypt(config[key]).threw THEN config[key] ELSE decrypt(config[key]).value]

\* decryptedConfig.key: undefined when the key is absent
field(config, key) == IF key \in DOMAIN config THEN config[key] ELSE Undefined

\* a || b over config values: stored values are non-empty strings
firstOf(values) ==
    LET present == {i \in DOMAIN values : values[i] # Undefined}
    IN  IF present = {} THEN Undefined
        ELSE values[CHOOSE i \in present : \A j \in present : i <= j]

(***************************************************************************)
(* The stored rows the model draws                                         *)
(***************************************************************************)

Sealed(text) == encrypt("salt", "iv", PlainText(text))

\* an envelope whose cipher text was altered after sealing
Tampered(text) ==
    [parts |-> <<"salt", "iv",
                 cipherText(pbkdf2Sync(ENCRYPTION_KEY, "salt"), "iv", PlainText("altered")),
                 Sealed(text).parts[4]>>]

\* an envelope sealed under another master key
WrongKey(text) == encryptUnder("old master key", "salt", "iv", PlainText(text))

\* an envelope cut short
Malformed(text) == [parts |-> SubSeq(Sealed(text).parts, 1, 3)]

SqlConfig(password) ==
    [k \in {"host", "database", "user", "password"} |->
        IF k = "password" THEN password ELSE PlainText(k)]

SupabaseConfig(key) ==
    [k \in {"url", "service_role_key"} |->
        IF k = "service_role_key" THEN key ELSE [parts |-> <<"https", "//project">>]]

StripeConfig == [k \in {"secret_key"} |-> Sealed("sk_live")]

SealedKind(service_slug) ==
    [service_slug |-> service_slug, config |-> SqlConfig(Sealed("secret"))]

\* a credential of one service whose config holds the fields of another
OtherConfigKind(service_slug) ==
    [service_slug |-> service_slug, config |-> SupabaseConfig(Sealed("service key"))]

\* a credential row's service and config
CredentialKinds == {
    [service_slug |-> "postgresql", config |-> SqlConfig(Sealed("secret"))],
    [service_slug |-> "postgresql", config |-> SqlConfig(Tampered("secret"))],
    [service_slug |-> "postgresql",
     config |-> [k \in {"host", "database", "user"} |-> PlainText(k)]],
    [service_slug |-> "mysql", config |-> SqlConfig(Sealed("secret"))],
    [service_slug |-> "mysql", config |-> SqlConfig(Malformed("secret"))],
    [service_slug |-> "supabase", config |-> SupabaseConfig(Sealed("service key"))],
    [service_slug |-> "supabase", config |-> SupabaseConfig(WrongKey("service key"))],
    [service_slug |-> "mssql", config |-> SqlConfig(Sealed("secret"))],
    [service_slug |-> "mssql", config |-> SupabaseConfig(Sealed("service key"))],
    [service_slug |-> "stripe", config |-> StripeConfig] }

\* the keys the field schema of a service marks encrypted
EncryptedFields(service_slug) ==
    CASE service_slug \in {"postgresql", "mysql", "mssql"} -> {"password"}
      [] service_slug = "supabase" -> {"service_role_key"}
      [] service_slug = "stripe" -> {"secret_key"}
      [] OTHER -> {}

Organization == "org1"

CredentialRow(kind, active, used) ==
    [id |-> "cred1", organization_id |-> Organization,
     service_slug |-> kind.service_slug, config |-> kind.config,
     is_active |-> active, test_queries_used |-> used]

AllowLists == {Null, [t |-> "array", items |-> <<>>],
               [t |-> "array", items |-> <<"list_tables">>]}

EndpointRow(service_slug, active, allowed) ==
    [id |-> "ep1", organization_id |-> Organization, credential_id |-> "cred1",
     service_slug |-> service_slug, is_active |-> active,
     allowed_tools |-> allowed, last_accessed_at |-> Null]

SubscriptionRow(plan, status, stripe_subscription_id) ==
    [organization_id |-> Organization, plan |-> plan, status |-> status,
     stripe_subscription_id |-> stripe_subscription_id]

UsageRow(organization_id, credential_id, service_slug, tool_name, success, day) ==
    [organization_id |-> organization_id, credential_id |-> credential_id,
     service_slug |-> service_slug, tool_name |-> tool_name,
     response_status |-> IF success THEN "success" ELSE "error", day |-> day]

\* n rows logged on one day
Logged(n, day) ==
    IF n = 0 THEN EmptyBag
    ELSE [r \in {UsageRow(Organization, "cred1", "seed", "list_tables", TRUE, day)} |-> n]

(***************************************************************************)
(* lib/usage-limits                                                        *)
(***************************************************************************)

Unlimited == -1

dailyLimit(plan) ==
    CASE plan = "free" -> 100
      [] plan = "starter" -> 10000
      [] plan = "lifetime" -> 10000
      [] plan = "pro" -> 100000
      [] plan = "team" -> Unlimited

\* the usage-log entries of an organization since local midnight
countSince(logs, organization_id, day) ==
    LET rows == {r \in DOMAIN logs : r.organization_id = organization_id /\ r.day >= day}
    IN  BagCardinality([r \in rows |-> logs[r]])

planOf(subs, organization_id) ==
    IF organization_id \in DOMAIN subs THEN subs[organization_id].plan ELSE "free"

canMakeRequest(subs, logs, today, organization_id) ==
    LET limit == dailyLimit(planOf(subs, organization_id))
    IN  IF limit = Unlimited THEN [allowed |-> TRUE, reason |-> ""]
        ELSE IF countSince(logs, organization_id, today) >= limit
        THEN [allowed |-> FALSE, reason |-> "Daily request limit reached"]
        ELSE [allowed |-> TRUE, reason |-> ""]

(***************************************************************************)
(* SpecTrial: app/api/test-connection, POST                                *)
(*                                                                         *)
(* Each client is one request of an authenticated member; a step is what   *)
(* the handler does between two awaits.                                    *)
(***************************************************************************)

MAX_TEST_QUERIES == 10

MaxClients == 2

Clients == 1..MaxClients

NewClient == [pc |-> "start", credential |-> Null, paid |-> FALSE, reply |-> "none",
              remaining |-> Null, stored |-> FALSE]

\* lines 53-62: the credential row is read
ReadCredential(c) ==
    /\ tc[c].pc = "start"
    /\ \E credentialId \in {"cred1", "cred0"} :
          IF credentialId \in DOMAIN credentials
             /\ credentials[credentialId].organization_id = Organization
          THEN tc' = [tc EXCEPT ![c].pc = "credential",
                                ![c].credential = credentials[credentialId]]
          ELSE tc' = [tc EXCEPT ![c].pc = "done", ![c].reply = "Credential not found"]
    /\ UNCHANGED <<storeVars, requestVars, tests_run, guardVars, adapterVars>>

\* subscription?.stripe_subscription_id && subscription.status === 'active'
hasPaidSubscription(subs, organization_id) ==
    /\ organization_id \in DOMAIN subs
    /\ Truthy(subs[organization_id].stripe_subscription_id)
    /\ subs[organization_id].status = "active"

\* lines 65-71: the subscription row is read
ReadSubscription(c) ==
    /\ tc[c].pc = "credential"
    /\ tc' = [tc EXCEPT ![c].pc = "subscription",
                        ![c].paid = hasPaidSubscription(subscriptions, Organization)]
    /\ UNCHANGED <<storeVars, requestVars, tests_run, guardVars, adapterVars>>

\* credential.test_queries_used || 0
testQueriesUsed(credential) == orElse(credential.test_queries_used, Num(0)).n

\* the row after update({ test_queries_used: value }).eq('id', id)
updateTestQueriesUsed(rows, id, value) ==
    IF id \in DOMAIN rows
    THEN [rows EXCEPT ![id].test_queries_used = Num(value)]
    ELSE rows

\* line 77: testQueriesUsed >= MAX_TEST_QUERIES
limitReachedAbove(used) == used > MAX_TEST_QUERIES

limitReached(used) == used >= MAX_TEST_QUERIES

\* lines 74-89: the limit is checked on the row read earlier, and the counter
\* is written as that row's value plus one; the result of the update is not
\* read, so the request goes on whether the store took the write or not
CheckLimit(c) ==
    /\ tc[c].pc = "subscription"
    /\ IF tc[c].paid
       THEN /\ tc' = [tc EXCEPT ![c].pc = "test"]
            /\ UNCHANGED credentials
       ELSE IF limitReached(testQueriesUsed(tc[c].credential))
       THEN /\ tc' = [tc EXCEPT ![c].pc = "done", ![c].reply = "limit_reached"]
            /\ UNCHANGED credentials
       ELSE \E stored \in BOOLEAN :
               /\ tc' = [tc EXCEPT ![c].pc = "test", ![c].stored = stored]
               /\ credentials' =
                     IF stored
                     THEN updateTestQueriesUsed(credentials, tc[c].credential.id,
                                                testQueriesUsed(tc[c].credential) + 1)
                     ELSE credentials
    /\ UNCHANGED <<mcp_endpoints, subscriptions, usage_logs, now, requestVars,
                   tests_run, guardVars, adapterVars>>

\* lines 92-101: each value decrypted, or kept as it is
decryptedConfigOf(credential) ==
    [key \in DOMAIN credential.config |->
        IF decrypt(credential.config[key]).threw THEN credential.config[key]
        ELSE decrypt(credential.config[key]).value]

\* the fields the test of a service needs
completeCredentials(service_slug, config) ==
    IF service_slug \in {"postgresql", "mysql"}
    THEN \A k \in {"host", "database", "user", "password"} : field(config, k) # Undefined
    ELSE /\ firstOf(<<field(config, "url"), field(config, "supabase_url"),
                      field(config, "project_url")>>) # Undefined
         /\ firstOf(<<field(config, "service_role_key"), field(config, "api_key"),
                      field(config, "anon_key"), field(config, "key")>>) # Undefined

\* the HTTP status of each reply: NextResponse.json without a status is 200
statusOfReply(reply) ==
    IF reply = "limit_reached" THEN 403
    ELSE IF reply = "Credential not found" THEN 404
    ELSE IF reply = "Incomplete credentials" THEN 400
    ELSE 200

\* lines 103-105
remainingQueries(client) ==
    IF client.paid THEN Str(<<"unlimited">>)
    ELSE Num(MAX_TEST_QUERIES - testQueriesUsed(client.credential) - 1)

\* lines 108-310: the connection test of the credential's service
RunTest(c) ==
    /\ tc[c].pc = "test"
    /\ IF ~completeCredentials(tc[c].credential.service_slug,
                               decryptedConfigOf(tc[c].credential))
       THEN /\ tc' = [tc EXCEPT ![c].pc = "done", ![c].reply = "Incomplete credentials"]
            /\ UNCHANGED tests_run
       ELSE /\ tests_run' = tests_run + 1
            /\ \E connected \in BOOLEAN :
                  tc' = [tc EXCEPT ![c].pc = "done",
                                   ![c].reply = IF connected THEN "success"
                                                ELSE "connection failed",
                                   ![c].remaining = IF connected
                                                    THEN remainingQueries(tc[c])
                                                    ELSE Null]
    /\ UNCHANGED <<storeVars, requestVars, guardVars, adapterVars>>

TrialNext ==
    \E c \in Clients :
        \/ ReadCredential(c)
        \/ ReadSubscription(c)
        \/ CheckLimit(c)
        \/ RunTest(c)

TrialCounts == {Null, Num(0), Num(MAX_TEST_QUERIES - 2), Num(MAX_TEST_QUERIES - 1),
                Num(MAX_TEST_QUERIES)}

TrialCredentialKinds ==
    {k \in CredentialKinds : k.service_slug \in {"postgresql", "supabase"}}

\* the row handleCheckoutCompleted writes for the one-time lifetime payment
lifetimeSubscription == SubscriptionRow("lifetime", "active", Null)

TrialSubscriptions == {
    EmptyTable,
    [o \in {Organization} |-> SubscriptionRow("free", "active", Null)],
    [o \in {Organization} |-> SubscriptionRow("pro", "active", Str(<<"sub_1">>))],
    [o \in {Organization} |-> SubscriptionRow("pro", "canceled", Str(<<"sub_1">>))],
    [o \in {Organization} |-> lifetimeSubscription] }

(***************************************************************************)
(* Spec: app/api/mcp/[endpointId], POST                                    *)
(*                                                                         *)
(* req is the bag of the requests in flight; a request leaves it with the  *)
(* response it is sent, which res then holds.                              *)
(***************************************************************************)

MaxRequests == 2

MaxDay == 1

Arr(items) == [t |-> "array", items |-> items]

SqlToolNames == <<"list_tables", "describe_table", "query_table", "execute_sql">>

POSTGRESQL_TOOLS == [of |-> "postgresql", names |-> SqlToolNames]
MYSQL_TOOLS == [of |-> "mysql", names |-> SqlToolNames]
SUPABASE_TOOLS == [of |-> "supabase", names |-> SqlToolNames]
MSSQL_TOOLS == [of |-> "mssql", names |-> SqlToolNames]

STRIPE_TOOLS ==
    [of |-> "stripe",
     names |-> <<"list_customers", "get_customer", "list_charges", "list_subscriptions",
                 "list_invoices", "get_balance", "list_products", "get_revenue_summary">>]

jsonRpcSuccess(result) == [kind |-> "result", code |-> 0, result |-> result]
jsonRpcError(code, message) == [kind |-> "error", code |-> code, result |-> message]

\* new NextResponse(null, { status: 204 })
NoContent == [kind |-> "empty", code |-> 0, result |-> "204"]

\* an exception no handler catches
Unhandled == [kind |-> "crash", code |-> 0, result |-> "500"]

NoReply == [kind |-> "none", code |-> 0, result |-> ""]

\* the handler called for a tools/call, with the config it is given
Invoke(handler, config) == [kind |-> "invoke", handler |-> handler, config |-> config]

\* what request.json() gives: parsed is false when it throws; a parsed body
\* is an object with an id, unless it is altered below
Body(parsed, jsonrpc, method, name) ==
    [parsed |-> parsed, json |-> "object", jsonrpc |-> jsonrpc, method |-> method,
     name |-> name, id |-> IF parsed THEN Num(1) ELSE Undefined]

\* the JSON text null
NullBody == [Body(TRUE, "", "", Undefined) EXCEPT !.json = "null", !.id = Undefined]

\* the JSON texts 7 and []: destructuring them gives undefined members
NumberBody == [Body(TRUE, "", "", Undefined) EXCEPT !.json = "number", !.id = Undefined]

ArrayBody == [Body(TRUE, "", "", Undefined) EXCEPT !.json = "array", !.id = Undefined]

\* lines 126-129: the id of the replies, null when the body did not parse
idOf(body) == IF ~body.parsed THEN Null ELSE body.id

ToolName(n) == Str(<<n>>)

nameOf(toolName) == toolName.s[1]

Bodies ==
    {Body(FALSE, "", "", Undefined), Body(TRUE, "1.0", "ping", Undefined)}
    \cup {Body(TRUE, "2.0", m, Undefined) :
            m \in {"initialize", "notifications/initialized", "tools/list",
                   "tools/call", "ping", "resources/list"}}
    \cup {Body(TRUE, "2.0", "tools/call", ToolName(n)) :
            n \in {"list_tables", "execute_sql", "list_customers"}}

\* the requests the model draws: every body for the endpoint that exists, one
\* for a path that names no endpoint
Requests ==
    {[body |-> b, endpointId |-> "ep1"] :
        b \in Bodies \cup {NullBody, NumberBody, ArrayBody}}
    \cup {[body |-> b, endpointId |-> "ep0"] :
            b \in {Body(TRUE, "2.0", "ping", Undefined), Body(TRUE, "1.0", "ping", Undefined),
                   Body(FALSE, "", "", Undefined)}}

\* the columns of an endpoint row the handler reads
columnsRead(row) ==
    [k \in DOMAIN row \ {"last_accessed_at"} |-> row[k]]

\* lines 43-58: the endpoint row with its credential row, or null
lookupEndpoint(endpoints, creds, endpointPath) ==
    IF endpointPath \notin DOMAIN endpoints THEN Null
    ELSE [row |-> columnsRead(endpoints[endpointPath]),
          credentials |-> IF endpoints[endpointPath].credential_id \in DOMAIN creds
                          THEN creds[endpoints[endpointPath].credential_id]
                          ELSE Null]

\* lines 124-152: the reply of a request that does not reach the usage check;
\* line 129 destructures the body, which throws when the body is null
earlyReply(body, endpoint) ==
    IF ~body.parsed THEN jsonRpcError(-32700, "Parse error: invalid JSON")
    ELSE IF body.json = "null" THEN Unhandled
    ELSE IF body.jsonrpc # "2.0"
    THEN jsonRpcError(-32600, "Invalid Request: must use JSON-RPC 2.0")
    ELSE IF endpoint = Null THEN jsonRpcError(-32001, "Endpoint not found")
    ELSE IF ~endpoint.row.is_active THEN jsonRpcError(-32002, "Endpoint is inactive")
    ELSE IF endpoint.credentials = Null \/ ~endpoint.credentials.is_active
    THEN jsonRpcError(-32001, "Credential not found or inactive")
    ELSE NoReply

InFlight(body, endpointId, endpoint) ==
    [pc |-> "usage", body |-> body, endpointId |-> endpointId, endpoint |-> endpoint,
     handler |-> "none", config |-> Null, result |-> Null, inserted |-> Null]

Response(reply, request, logged) ==
    [reply |-> reply, id |-> idOf(request.body), body |-> request.body,
     endpointId |-> request.endpointId,
     handler |-> request.handler, config |-> request.config,
     result |-> request.result, inserted |-> request.inserted, logged |-> logged]

NoResponse == Response(NoReply, InFlight(Body(FALSE, "", "", Undefined), "", Null), FALSE)

\* lines 202-207 and 233-238
toolsFor(service_slug) ==
    IF service_slug = "postgresql" THEN POSTGRESQL_TOOLS
    ELSE IF service_slug = "mysql" THEN MYSQL_TOOLS
    ELSE SUPABASE_TOOLS

\* lines 210-214
allowListSet(row) ==
    row.allowed_tools.t = "array" /\ Len(row.allowed_tools.items) > 0

\* lines 200-221
listedTools(row) ==
    LET tools == toolsFor(row.service_slug)
    IN  IF allowListSet(row)
        THEN [tools EXCEPT !.names = SelectSeq(tools.names,
                                LAMBDA n : n \in Range(row.allowed_tools.items))]
        ELSE tools

\* lines 260-270: Object.entries(config) throws on a config that is null
decryptedOrThrown(config) ==
    IF config = Null THEN Throws(<<"Cannot convert undefined or null to object">>)
    ELSE Returns(decryptCredentialConfig(config))

\* lines 277-284 and 297-304
sqlConfigOf(decryptedConfig, defaultPort) ==
    [k \in {"host", "port", "database", "user", "password", "ssl"} |->
        IF k = "port"
        THEN firstOf(<<field(decryptedConfig, "port"), PlainText(defaultPort)>>)
        ELSE field(decryptedConfig, k)]

sqlConfigComplete(config) ==
    \A k \in {"host", "database", "user", "password"} : config[k] # Undefined

\* lines 318-323
supabaseConfigOf(decryptedConfig) ==
    [k \in {"url", "key"} |->
        IF k = "url"
        THEN firstOf(<<field(decryptedConfig, "url"), field(decryptedConfig, "supabase_url"),
                       field(decryptedConfig, "project_url")>>)
        ELSE firstOf(<<field(decryptedConfig, "service_role_key"),
                       field(decryptedConfig, "api_key"),
                       field(decryptedConfig, "anon_key"), field(decryptedConfig, "key")>>)]

\* lines 272-335: the handler the service is routed to
routed(service_slug, decryptedConfig) ==
    IF service_slug = "postgresql"
    THEN IF ~sqlConfigComplete(sqlConfigOf(decryptedConfig, "5432"))
         THEN jsonRpcError(-32000, "Incomplete PostgreSQL credentials")
         ELSE Invoke("handlePostgresqlTool", sqlConfigOf(decryptedConfig, "5432"))
    ELSE IF service_slug = "mysql"
    THEN IF ~sqlConfigComplete(sqlConfigOf(decryptedConfig, "3306"))
         THEN jsonRpcError(-32000, "Incomplete MySQL credentials")
         ELSE Invoke("handleMysqlTool", sqlConfigOf(decryptedConfig, "3306"))
    ELSE IF \E k \in {"url", "key"} : supabaseConfigOf(decryptedConfig)[k] = Undefined
         THEN jsonRpcError(-32000, "Incomplete credentials")
         ELSE Invoke("handleSupabaseTool", supabaseConfigOf(decryptedConfig))

\* lines 224-335: tools/call up to the call of the handler
toolsCall(body, endpoint) ==
    IF ~Truthy(body.name)
    THEN jsonRpcError(-32602, "Invalid params: tool name is required")
    ELSE IF nameOf(body.name) \notin Range(toolsFor(endpoint.row.service_slug).names)
    THEN jsonRpcError(-32601, "Tool not found")
    ELSE IF /\ allowListSet(endpoint.row)
            /\ nameOf(body.name) \notin Range(endpoint.row.allowed_tools.items)
    THEN jsonRpcError(-32601, "Tool is not enabled for this endpoint")
    ELSE IF decryptedOrThrown(endpoint.credentials.config).threw
    THEN jsonRpcError(-32000, "Failed to decrypt credentials. They may need to be re-added.")
    ELSE routed(endpoint.row.service_slug,
                decryptedOrThrown(endpoint.credentials.config).value)

\* lines 178-385: the switch on the method
dispatch(body, endpoint) ==
    CASE body.method = "initialize" ->
            jsonRpcSuccess([protocolVersion |-> "2025-03-26",
                            capabilities |-> [tools |-> <<>>],
                            serverInfo |-> [name |-> "Synra MCP Gateway",
                                            version |-> "1.0.0"]])
      [] body.method = "notifications/initialized" -> NoContent
      [] body.method = "tools/list" -> jsonRpcSuccess(listedTools(endpoint.row))
      [] body.method = "tools/call" -> toolsCall(body, endpoint)
      [] body.method = "ping" -> jsonRpcSuccess(<<>>)
      [] OTHER -> jsonRpcError(-32601, "Method not found")

\* line 157: the organization whose usage is checked
usageOrganizationOther(endpoint) == "org0"

usageOrganization(endpoint) == endpoint.row.organization_id

\* line 159: the request goes on when the usage check allows it
admittedAlways(usageCheck) == TRUE

admitted(usageCheck) == usageCheck.allowed

touchedAndDisabled(endpoints, endpointId, day) ==
    IF endpointId \in DOMAIN endpoints
    THEN [endpoints EXCEPT ![endpointId].last_accessed_at = Num(day),
                           ![endpointId].is_active = FALSE]
    ELSE endpoints

\* lines 169-174: update({ last_accessed_at }).eq('id', endpoint.id)
touched(endpoints, endpointId, day) ==
    IF endpointId \in DOMAIN endpoints
    THEN [endpoints EXCEPT ![endpointId].last_accessed_at = Num(day)]
    ELSE endpoints

\* lines 340-351: the row of usage_logs.insert
usageRowOf(request, success, day) ==
    UsageRow(request.endpoint.row.organization_id, request.endpoint.credentials.id,
             request.endpoint.row.service_slug, nameOf(request.body.name), success, day)

\* lines 119-152: a request arrives and its endpoint is looked up
Receive ==
    /\ received < MaxRequests
    /\ received' = received + 1
    /\ \E arrival \in Requests :
          LET endpoint == lookupEndpoint(mcp_endpoints, credentials, arrival.endpointId)
              request == InFlight(arrival.body, arrival.endpointId, endpoint)
          IN  IF earlyReply(arrival.body, endpoint).kind # "none"
              THEN /\ res' = Response(earlyReply(arrival.body, endpoint), request, FALSE)
                   /\ UNCHANGED req
              ELSE /\ req' = req (+) SetToBag({request})
                   /\ UNCHANGED res
    /\ UNCHANGED <<storeVars, trialVars, guardVars, adapterVars>>

\* lines 154-335: the usage check, then the method up to the call of a handler;
\* the update of last_accessed_at is sent and not awaited
UsageCheck ==
    \E request \in BagToSet(req) :
        /\ request.pc = "usage"
        /\ LET usageCheck == canMakeRequest(subscriptions, usage_logs, now,
                                            usageOrganization(request.endpoint))
               step == dispatch(request.body, request.endpoint)
           IN  IF ~admitted(usageCheck)
               THEN /\ res' = Response(jsonRpcError(-32003, usageCheck.reason),
                                       request, FALSE)
                    /\ req' = req (-) SetToBag({request})
                    /\ UNCHANGED mcp_endpoints
               ELSE /\ mcp_endpoints' = touched(mcp_endpoints, request.endpointId, now)
                    /\ IF step.kind = "invoke"
                       THEN /\ req' = (req (-) SetToBag({request}))
                                      (+) SetToBag({[request EXCEPT
                                                        !.pc = "calling",
                                                        !.handler = step.handler,
                                                        !.config = step.config]})
                            /\ UNCHANGED res
                       ELSE /\ res' = Response(step, request, FALSE)
                            /\ req' = req (-) SetToBag({request})
        /\ UNCHANGED <<credentials, subscriptions, usage_logs, now, received,
                       trialVars, guardVars, adapterVars>>

\* what the await of a handler gives: handleMysqlTool connects outside its try
HandlerOutcomes(handler) ==
    {"success", "error"} \cup (IF handler = "handleMysqlTool" THEN {"raised"} ELSE {})

\* the ToolCallResult of a handler
ToolCallResult(outcome) ==
    IF outcome = "success"
    THEN [success |-> TRUE, data |-> [tables |-> <<"users">>]]
    ELSE [success |-> FALSE, error |-> "upstream error"]

\* JSON.stringify(value, null, space): the JSON text of a value
JSONstringify(value, space) == [json |-> value, space |-> space]

\* lines 354-373: the reply of a tool call
translatedAlike(result) ==
    jsonRpcSuccess([content |-> <<[type |-> "text",
                                   text |-> JSONstringify(result, 2)]>>])

translated(result) ==
    IF ~result.success
    THEN jsonRpcSuccess([content |-> <<[type |-> "text",
                                        text |-> JSONstringify([error |-> result.error], 0)]>>,
                         isError |-> TRUE])
    ELSE jsonRpcSuccess([content |-> <<[type |-> "text",
                                        text |-> JSONstringify(result.data, 2)]>>])

\* lines 295-373: the handler returns; the insert into usage_logs is sent
\* (inserted is its row), is not awaited and may fail unnoticed
ToolReturn ==
    \E request \in BagToSet(req) :
        /\ request.pc = "calling"
        /\ req' = req (-) SetToBag({request})
        /\ \E outcome \in HandlerOutcomes(request.handler) :
              IF outcome = "raised"
              THEN /\ res' = Response(Unhandled, request, FALSE)
                   /\ UNCHANGED usage_logs
              ELSE \E landed \in BOOLEAN :
                      /\ usage_logs' =
                            IF landed
                            THEN usage_logs
                                 (+) SetToBag({usageRowOf(request,
                                                          ToolCallResult(outcome).success, now)})
                            ELSE usage_logs
                      /\ res' = Response(translated(ToolCallResult(outcome)),
                                         [request EXCEPT
                                            !.result = ToolCallResult(outcome),
                                            !.inserted =
                                                usageRowOf(request,
                                                    ToolCallResult(outcome).success, now)],
                                         landed)
        /\ UNCHANGED <<mcp_endpoints, credentials, subscriptions, now, received,
                       trialVars, guardVars, adapterVars>>

\* a GET has no body
NoBody == [Body(FALSE, "", "", Undefined) EXCEPT !.json = "none"]

\* lines 81-111: the reply of the health check
healthReply(endpoint, endpointId) ==
    IF endpoint = Null THEN [kind |-> "http", code |-> 404, result |-> "Endpoint not found"]
    ELSE IF ~endpoint.row.is_active
    THEN [kind |-> "http", code |-> 403, result |-> "Endpoint is inactive"]
    ELSE [kind |-> "http", code |-> 200,
          result |-> [name |-> "Synra MCP Gateway", version |-> "1.0.0", status |-> "active",
                      service |-> endpoint.row.service_slug, endpoint |-> endpointId]]

\* lines 81-111: GET, the health check of an endpoint
HealthCheck ==
    /\ received < MaxRequests
    /\ received' = received + 1
    /\ \E endpointId \in {"ep1", "ep0"} :
          LET endpoint == lookupEndpoint(mcp_endpoints, credentials, endpointId)
          IN  res' = Response(healthReply(endpoint, endpointId),
                              InFlight(NoBody, endpointId, endpoint), FALSE)
    /\ UNCHANGED <<storeVars, req, trialVars, guardVars, adapterVars>>

\* local midnight passes
Midnight ==
    /\ now < MaxDay
    /\ now' = now + 1
    /\ UNCHANGED <<mcp_endpoints, credentials, subscriptions, usage_logs, requestVars,
                   trialVars, guardVars, adapterVars>>

Next ==
    \/ Receive
    \/ UsageCheck
    \/ ToolReturn
    \/ Midnight

\* the state of the endpoint and of its credential
EndpointStates == {
    [endpoint |-> TRUE, credential |-> "active"],
    [endpoint |-> FALSE, credential |-> "active"],
    [endpoint |-> TRUE, credential |-> "inactive"],
    [endpoint |-> TRUE, credential |-> "missing"] }

\* the plan of the organization and the requests it made today
QuotaStates == {
    [plan |-> "free", used |-> dailyLimit("free") - 1, tests |-> Num(MAX_TEST_QUERIES)],
    [plan |-> "free", used |-> dailyLimit("free"), tests |-> Null],
    [plan |-> "team", used |-> dailyLimit("free"), tests |-> Num(0)] }

\* also a config that is null, and a service the gateway has no adapter for
GatewayCredentialKinds ==
    CredentialKinds \cup {[service_slug |-> "postgresql", config |-> Null],
                          OtherConfigKind("oracle")}

(***************************************************************************)
(* The other components at rest                                            *)
(***************************************************************************)

GuardNext == SanitizeSqlCall

GuardInit ==
    /\ guard \in [pc : {"call"}, sql : SqlInputs, check : {NoCheck}]
    /\ mcp_endpoints = EmptyTable
    /\ credentials = EmptyTable
    /\ subscriptions = EmptyTable
    /\ usage_logs = EmptyTable
    /\ now = 0
    /\ req = EmptyTable
    /\ res = NoResponse
    /\ received = 0
    /\ tc = EmptyTable
    /\ tests_run = 0
    /\ seal = SealIdle
    /\ connections = NoConnections
    /\ setup = NoSetup
    /\ call = CallIdle
    /\ upstream = <<>>

SpecGuard == GuardInit /\ [][GuardNext]_vars

Init ==
    /\ \E kind \in GatewayCredentialKinds, state \in EndpointStates, allowed \in AllowLists,
          quota \in QuotaStates :
          /\ \/ (state.endpoint /\ state.credential = "active")
             \/ kind = SealedKind("mysql")
          /\ allowed = Null \/ kind \in {SealedKind("postgresql"), OtherConfigKind("mssql")}
          /\ mcp_endpoints =
                [id \in {"ep1"} |-> EndpointRow(kind.service_slug, state.endpoint, allowed)]
          /\ credentials =
                [id \in IF state.credential = "missing" THEN {} ELSE {"cred1"} |->
                    CredentialRow(kind, state.credential = "active", quota.tests)]
          /\ subscriptions =
                [o \in {Organization} |-> SubscriptionRow(quota.plan, "active", Null)]
          /\ usage_logs = Logged(quota.used, 0)
    /\ now = 0
    /\ req = EmptyBag
    /\ res = NoResponse
    /\ received = 0
    /\ tc = EmptyTable
    /\ tests_run = 0
    /\ seal = SealIdle
    /\ connections = NoConnections
    /\ setup = NoSetup
    /\ guard = GuardIdle
    /\ call = CallIdle
    /\ upstream = <<>>

Spec == Init /\ [][Next]_vars

\* the gateway with both of its handlers, POST and GET
PathNext ==
    \/ Receive
    \/ UsageCheck
    \/ ToolReturn
    \/ HealthCheck
    \/ Midnight

SpecPath == Init /\ [][PathNext]_vars

TrialInit ==
    /\ \E kind \in TrialCredentialKinds, used \in TrialCounts :
          credentials = [id \in {"cred1"} |-> CredentialRow(kind, TRUE, used)]
    /\ subscriptions \in TrialSubscriptions
    /\ tc = [c \in Clients |-> NewClient]
    /\ tests_run = 0
    /\ seal = SealIdle
    /\ connections = NoConnections
    /\ setup = NoSetup
    /\ mcp_endpoints = EmptyTable
    /\ usage_logs = EmptyTable
    /\ now = 0
    /\ req = EmptyTable
    /\ res = NoResponse
    /\ received = 0
    /\ guard = GuardIdle
    /\ call = CallIdle
    /\ upstream = <<>>

SpecTrial == TrialInit /\ [][TrialNext]_vars

AdapterInit ==
    /\ \E adapter \in Adapters, toolCall \in ToolCalls :
          call = [pc |-> "start", adapter |-> adapter, toolName |-> toolCall.toolName,
                  args |-> toolCall.args, conn |-> "none", result |-> NoResult]
    /\ upstream = <<>>
    /\ guard = GuardIdle
    /\ mcp_endpoints = EmptyTable
    /\ credentials = EmptyTable
    /\ subscriptions = EmptyTable
    /\ usage_logs = EmptyTable
    /\ now = 0
    /\ req = EmptyTable
    /\ res = NoResponse
    /\ received = 0
    /\ tc = EmptyTable
    /\ tests_run = 0
    /\ seal = SealIdle
    /\ connections = NoConnections
    /\ setup = NoSetup

SpecAdapter == AdapterInit /\ [][AdapterNext]_vars

(***************************************************************************)
(* Claims about the SQL guard                                              *)
(***************************************************************************)

\* the maximal runs of word characters of s, as pairs of positions
WordRuns(s) ==
    {r \in (DOMAIN s) \X (DOMAIN s) :
        /\ r[1] <= r[2]
        /\ \A i \in r[1]..r[2] : isWordChar(s[i])
        /\ (r[1] = 1 \/ ~isWordChar(s[r[1] - 1]))
        /\ (r[2] = Len(s) \/ ~isWordChar(s[r[2] + 1]))}

\* the words of s, in upper case
WordsOf(s) == {toUpperCase(SubSeq(s, r[1], r[2])) : r \in WordRuns(s)}

\* s without its leading white space
DropLeadingSpace(s) ==
    LET lead == {n \in 0..Len(s) : \A i \in 1..n : s[i] \in WhiteSpace}
        n == CHOOSE m \in lead : \A k \in lead : k <= m
    IN  SubSeq(s, n + 1, Len(s))

HasPrefix(s, p) ==
    Len(s) >= Len(p) /\ toUpperCase(SubSeq(s, 1, Len(p))) = p

ReadOnlyText(s) ==
    /\ \A i \in DOMAIN s : s[i] # ";"
    /\ \A i \in 1..(Len(s) - 1) : ~(s[i] = "-" /\ s[i + 1] = "-")
    /\ \A i \in 1..(Len(s) - 1) : ~(s[i] = "/" /\ s[i + 1] = "*")
    /\ WordsOf(s) \cap Range(BLOCKED_KEYWORDS) = {}
    /\ \/ HasPrefix(DropLeadingSpace(s), KW_SELECT)
       \/ HasPrefix(DropLeadingSpace(s), KW_WITH)

\* C5: every input sanitizeSql accepts is a string with no semicolon, no
\* "--", no "/*" and no blocked keyword as a whole word in any letter case,
\* that begins, after trimming, with SELECT or WITH in any letter case; an
\* empty or white-space-only input, or one that is no string, is rejected.
C5_GuardSound ==
    guard.pc = "return" =>
        /\ guard.check.safe =>
              guard.sql.t = "string" /\ ReadOnlyText(guard.sql.s)
        /\ (guard.sql.t # "string"
              \/ \A i \in DOMAIN guard.sql.s : guard.sql.s[i] \in WhiteSpace)
              => ~guard.check.safe

\* C5 witness: an accepted lower-case query that holds a blocked keyword
\* inside a longer word
C5_Witness ==
    /\ guard.pc = "return"
    /\ guard.check.safe
    /\ includes(guard.sql.s, <<"d","r","o","p">>)
    /\ startsWith(guard.sql.s, <<"s","e","l","e","c","t">>)

\* the caller-supplied values interpolated into the text of a statement
InterpolatedArgs(statement) ==
    {statement.text[i].value : i \in {j \in DOMAIN statement.text :
                                        statement.text[j].src = "arg"}}

PassedSanitizeIdentifier(v) == v.t = "string" /\ ~sanitizeTableName(v).threw

\* C3: in every query_table statement a SQL adapter sends upstream, each
\* caller-supplied value that is part of the statement text passed the
\* identifier check or is a number; everything else is a bound parameter.
C3_OnlySanitizedText ==
    \A i \in DOMAIN upstream :
        (call.adapter \in SqlAdapters /\ upstream[i].tool = "query_table")
        => \A v \in InterpolatedArgs(upstream[i]) :
                PassedSanitizeIdentifier(v) \/ v.t \in {"number", "nan"}

\* C4: a statement of execute_sql is sent upstream only when the guard
\* accepted exactly the string that is sent; when the guard rejects, nothing
\* is sent and the error result carries the guard's reason.
C4_GuardedExecute ==
    /\ \A i \in DOMAIN upstream :
          upstream[i].tool = "execute_sql"
          => /\ upstream[i].text = <<Arg(call.args.sql)>>
             /\ sanitizeSql(call.args.sql).safe
    /\ (/\ call.pc \notin {"idle", "start", "connected"}
        /\ call.toolName = "execute_sql"
        /\ argTruthy(call.args.sql)
        /\ ~sanitizeSql(call.args.sql).safe
        /\ call.result.error # <<"connect failed">>)
       => /\ upstream = <<>>
          /\ call.result = Failure(<<"SQL rejected: ",
                                     sanitizeSql(call.args.sql).reason,
                                     sanitizeSql(call.args.sql).keyword>>)

C4_Witness ==
    /\ call.pc = "done"
    /\ call.adapter = "mssql"
    /\ call.toolName = "execute_sql"
    /\ call.result = Success
    /\ Len(upstream) = 1
    /\ upstream[1].tool = "execute_sql"
    /\ includes(call.args.sql.s, <<"x">>)

\* the requests that passed the trial gate, and those it turned away
PassedGate == {c \in Clients : tc[c].pc = "test"
                               \/ tc[c].reply \in {"success", "connection failed",
                                                   "Incomplete credentials"}}

LimitReached == {c \in Clients : tc[c].reply = "limit_reached"}

\* the counter before the requests: the lowest value any of them read
UsedAtStart ==
    LET readers == {c \in Clients : tc[c].credential # Null}
    IN  CHOOSE u \in {testQueriesUsed(tc[c].credential) : c \in readers} :
            \A c \in readers : u <= testQueriesUsed(tc[c].credential)

\* C1: without a paid subscription, of N concurrent test-connection requests
\* for one credential with K trial queries left, at most K pass the gate and
\* run the test, and once all have answered exactly min(K, N) have passed and
\* the others were answered limit_reached.
C1_ExactlyKRun ==
    (/\ ~hasPaidSubscription(subscriptions, Organization)
     /\ \E c \in Clients : tc[c].credential # Null)
    => LET K == MAX_TEST_QUERIES - UsedAtStart
           N == Cardinality({c \in Clients : tc[c].credential # Null})
       IN  /\ Cardinality(PassedGate) <= K
           /\ (\A c \in Clients : tc[c].pc = "done")
              => /\ Cardinality(PassedGate) = (IF K < N THEN K ELSE N)
                 /\ Cardinality(LimitReached) = N - Cardinality(PassedGate)

(***************************************************************************)
(* The gateway's claims                                                    *)
(***************************************************************************)

\* the last response answers a request whose endpoint resolved and is active,
\* with an active credential
Served ==
    /\ res.reply.kind # "none"
    /\ res.body.parsed
    /\ res.body.jsonrpc = "2.0"
    /\ res.endpointId \in DOMAIN mcp_endpoints
    /\ mcp_endpoints[res.endpointId].is_active
    /\ mcp_endpoints[res.endpointId].credential_id \in DOMAIN credentials
    /\ credentials[mcp_endpoints[res.endpointId].credential_id].is_active

ServedRow == mcp_endpoints[res.endpointId]

ServedCredential == credentials[ServedRow.credential_id]

\* the adapters of the repository, by service
AdapterTools(service_slug) ==
    CASE service_slug = "postgresql" -> POSTGRESQL_TOOLS
      [] service_slug = "mysql" -> MYSQL_TOOLS
      [] service_slug = "mssql" -> MSSQL_TOOLS
      [] service_slug = "supabase" -> SUPABASE_TOOLS
      [] service_slug = "stripe" -> STRIPE_TOOLS

AdapterHandler(service_slug) ==
    CASE service_slug = "postgresql" -> "handlePostgresqlTool"
      [] service_slug = "mysql" -> "handleMysqlTool"
      [] service_slug = "mssql" -> "handleMssqlTool"
      [] service_slug = "supabase" -> "handleSupabaseTool"
      [] service_slug = "stripe" -> "handleStripeTool"

AdapterServices == {"postgresql", "mysql", "mssql", "supabase", "stripe"}

\* the services the gateway's dispatch has a branch for
DispatchedServices == {"postgresql", "mysql", "supabase"}

\* a field the service's schema declares encrypted holds a value that does
\* not unseal
UnsealFails(credential) ==
    /\ credential.config # Null
    /\ \E k \in EncryptedFields(credential.service_slug) \cap DOMAIN credential.config :
          decrypt(credential.config[k]).threw

\* the sealed values of a credential that do not unseal
UnsealableValues(credential) ==
    {credential.config[k] :
        k \in {f \in EncryptedFields(credential.service_slug) \cap DOMAIN credential.config :
                 decrypt(credential.config[f]).threw}}

\* the usage check denies the organization of a request
Denied(request) ==
    ~canMakeRequest(subscriptions, usage_logs, now,
                    request.endpoint.row.organization_id).allowed

\* the request is answered or handed to a handler in this step
Processed(request) ==
    /\ request.pc = "usage"
    /\ CopiesIn(request, req') < CopiesIn(request, req)

\* no request is handed to a handler in this step
NoneInvoked ==
    \A q \in BagToSet(req') : q.pc = "calling" => CopiesIn(q, req') <= CopiesIn(q, req)

\* C2: when a field declared encrypted holds a value that cannot be unsealed,
\* a tools/call that names an enabled tool of the service and is not denied
\* by the quota is answered with error -32000, no handler is called, and no
\* handler is ever given the stored sealed value.
C2_UnsealFailureRejected ==
    /\ (/\ Served
        /\ res.body.method = "tools/call"
        /\ Truthy(res.body.name)
        /\ ServedRow.service_slug \in AdapterServices
        /\ nameOf(res.body.name) \in Range(AdapterTools(ServedRow.service_slug).names)
        /\ ~allowListSet(ServedRow)
        /\ res.reply.code # -32003
        /\ UnsealFails(ServedCredential))
       => /\ res.reply.kind = "error"
          /\ res.reply.code = -32000
          /\ res.handler = "none"
    /\ \A r \in BagToSet(req) :
          r.pc = "calling"
          => /\ ~UnsealFails(r.endpoint.credentials)
             /\ \A k \in DOMAIN r.config :
                   r.config[k] \notin UnsealableValues(r.endpoint.credentials)

\* the code of the first check of the tools/call pipeline that a request
\* fails, 0 when it fails none
FirstFailingCheck(request) ==
    LET row == request.endpoint.row
        name == request.body.name
    IN  IF ~Truthy(name) THEN -32602
        ELSE IF row.service_slug \notin AdapterServices THEN -32000
        ELSE IF nameOf(name) \notin Range(AdapterTools(row.service_slug).names) THEN -32601
        ELSE IF allowListSet(row) /\ nameOf(name) \notin Range(row.allowed_tools.items)
        THEN -32601
        ELSE IF request.endpoint.credentials.config = Null
                \/ UnsealFails(request.endpoint.credentials)
        THEN -32000
        ELSE IF Denied(request) THEN -32003
        ELSE 0

\* C6: for a tools/call on a resolved, active endpoint the first failing check
\* of the pipeline (name, adapter, tool, allow-list, unseal, quota) alone
\* decides the reply, and a handler is called only when no check fails.
C6_FirstFailingCheckDecides ==
    [][\A r \in BagToSet(req) :
          (Processed(r) /\ r.body.method = "tools/call")
          => IF FirstFailingCheck(r) # 0
             THEN /\ res'.body = r.body
                  /\ res'.reply.kind = "error"
                  /\ res'.reply.code = FirstFailingCheck(r)
                  /\ NoneInvoked
             ELSE TRUE]_vars

\* C7: when the daily-quota check denies a tools/call, the reply is error
\* -32003, no handler is called, nothing is sent upstream and no usage record
\* is appended for the request.
C7_DeniedCallDoesNothing ==
    [][\A r \in BagToSet(req) :
          (Processed(r) /\ r.body.method = "tools/call" /\ Denied(r))
          => /\ res'.body = r.body
             /\ res'.reply.kind = "error"
             /\ res'.reply.code = -32003
             /\ res'.handler = "none"
             /\ ~res'.logged
             /\ NoneInvoked
             /\ usage_logs' = usage_logs
             /\ upstream' = upstream]_vars

C7_Witness ==
    /\ Served
    /\ res.body.method = "tools/call"
    /\ res.body.name = ToolName("list_tables")
    /\ res.reply.code = -32003
    /\ res.handler = "none"
    /\ countSince(usage_logs, Organization, now) = dailyLimit("free")
    /\ planOf(subscriptions, Organization) = "free"

\* the organization's count of today's usage-log entries has reached the
\* daily limit of its plan
LimitHit(organization_id) ==
    /\ dailyLimit(planOf(subscriptions, organization_id)) # Unlimited
    /\ countSince(usage_logs, organization_id, now)
          >= dailyLimit(planOf(subscriptions, organization_id))

\* C8: once the organization's count of usage-log entries since midnight has
\* reached the plan's daily limit, every tools/call of that organization that
\* reaches the quota check on that day is answered -32003, whatever requests
\* came in between, and no step within a day lowers the count.
C8_QuotaMonotone ==
    [][/\ \A r \in BagToSet(req) :
             (/\ Processed(r)
              /\ r.body.method = "tools/call"
              /\ LimitHit(r.endpoint.row.organization_id))
             => /\ res'.body = r.body
                /\ res'.reply.kind = "error"
                /\ res'.reply.code = -32003
       /\ now' = now
          => countSince(usage_logs', Organization, now)
                >= countSince(usage_logs, Organization, now)]_vars

\* a call logged in this run brought the count to the limit, and a later
\* tools/call was denied
C8_Witness ==
    /\ Served
    /\ res.body.method = "tools/call"
    /\ res.reply.code = -32003
    /\ received = MaxRequests
    /\ countSince(usage_logs, Organization, now) = dailyLimit("free")
    /\ \E row \in DOMAIN usage_logs : row.service_slug # "seed"

\* C9: on an endpoint whose allow-list is non-empty and lacks tool T,
\* tools/list never returns T and a tools/call naming T is answered -32601
\* with no handler called; on an endpoint with no allow-list or an empty one,
\* tools/list returns the whole tool set of the service's adapter.
C9_AllowListEnforced ==
    /\ (Served /\ allowListSet(ServedRow) /\ res.body.method = "tools/list"
        /\ res.reply.kind = "result")
       => Range(res.reply.result.names) \subseteq Range(ServedRow.allowed_tools.items)
    /\ (Served /\ allowListSet(ServedRow) /\ res.body.method = "tools/call"
        /\ Truthy(res.body.name)
        /\ nameOf(res.body.name) \notin Range(ServedRow.allowed_tools.items))
       => /\ res.reply.kind = "error"
          /\ res.reply.code = -32601
          /\ res.handler = "none"
    /\ \A r \in BagToSet(req) :
          (r.pc = "calling" /\ allowListSet(r.endpoint.row))
          => nameOf(r.body.name) \in Range(r.endpoint.row.allowed_tools.items)
    /\ (Served /\ ~allowListSet(ServedRow) /\ res.body.method = "tools/list"
        /\ ServedRow.service_slug \in AdapterServices)
       => /\ res.reply.kind = "result"
          /\ res.reply.result = AdapterTools(ServedRow.service_slug)

\* C10: the handler called for a request is the one of the endpoint's service
\* and no other; on an endpoint whose service the dispatch has no adapter
\* for, a tools/call that names a tool and is not denied by the quota is
\* answered -32000 with no handler called, and tools/list never returns the
\* tool list of another service.
C10_AdapterOfService ==
    /\ \A r \in BagToSet(req) :
          r.pc = "calling"
          => /\ r.endpoint.row.service_slug \in AdapterServices
             /\ r.handler = AdapterHandler(r.endpoint.row.service_slug)
    /\ (/\ Served
        /\ ServedRow.service_slug \notin DispatchedServices
        /\ res.body.method = "tools/call"
        /\ Truthy(res.body.name)
        /\ res.reply.code # -32003)
       => /\ res.reply.kind = "error"
          /\ res.reply.code = -32000
          /\ res.handler = "none"
    /\ (/\ Served
        /\ ServedRow.service_slug \notin DispatchedServices
        /\ res.body.method = "tools/list"
        /\ res.reply.kind = "result")
       => res.reply.result.of = ServedRow.service_slug

\* C11: on an endpoint that resolves, is active and has an active credential,
\* initialize is answered with a result whose protocolVersion is "2025-03-26"
\* and whose capabilities hold tools, ping with the empty result, and
\* notifications/initialized with 204 and no body, whatever the usage of the
\* organization.
C11_HandshakeAnswered ==
    [][\A r \in BagToSet(req) :
          Processed(r)
          => /\ r.body.method = "initialize"
                => /\ res'.body = r.body
                   /\ res'.reply.kind = "result"
                   /\ res'.reply.result.protocolVersion = "2025-03-26"
                   /\ "tools" \in DOMAIN res'.reply.result.capabilities
             /\ r.body.method = "ping"
                => /\ res'.body = r.body
                   /\ res'.reply.kind = "result"
                   /\ res'.reply.result = <<>>
             /\ r.body.method = "notifications/initialized"
                => /\ res'.body = r.body
                   /\ res'.reply = NoContent]_vars

\* the code of the first envelope or endpoint fault of a request, 0 when it
\* has none
EnvelopeFault(arrival) ==
    IF ~arrival.body.parsed THEN -32700
    ELSE IF arrival.body.jsonrpc # "2.0" THEN -32600
    ELSE IF arrival.endpointId \notin DOMAIN mcp_endpoints THEN -32001
    ELSE IF ~mcp_endpoints[arrival.endpointId].is_active THEN -32002
    ELSE IF \/ mcp_endpoints[arrival.endpointId].credential_id \notin DOMAIN credentials
            \/ ~credentials[mcp_endpoints[arrival.endpointId].credential_id].is_active
    THEN -32001
    ELSE 0

\* a request arrives in this step
Arrives(arrival) ==
    /\ received' = received + 1
    /\ \/ /\ res' # res
          /\ res'.body = arrival.body
          /\ res'.endpointId = arrival.endpointId
       \/ \E q \in BagToSet(req') :
             /\ CopiesIn(q, req') > CopiesIn(q, req)
             /\ q.body = arrival.body
             /\ q.endpointId = arrival.endpointId

\* C12: a request with an envelope or endpoint fault is answered with the code
\* of the first fault in the order -32700 (id null), -32600, -32001, -32002,
\* -32001; the reply carries the request's id, no handler is called,
\* last_accessed_at is not touched and no usage record is appended.
C12_EnvelopeFaults ==
    [][\A arrival \in Requests :
          (Arrives(arrival) /\ EnvelopeFault(arrival) # 0)
          => /\ res'.body = arrival.body
             /\ res'.reply.kind = "error"
             /\ res'.reply.code = EnvelopeFault(arrival)
             /\ res'.id = (IF EnvelopeFault(arrival) = -32700 THEN Null
                           ELSE arrival.body.id)
             /\ res'.handler = "none"
             /\ req' = req
             /\ mcp_endpoints' = mcp_endpoints
             /\ usage_logs' = usage_logs]_vars

\* C13: a tool call of an adapter always ends with a result, success or
\* error, and never by raising, whatever fails inside it, the connection to
\* the upstream included.
C13_AdaptersNeverRaise ==
    call.pc = "done" => call.result.status \in {"success", "error"}

\* C14: when the handler returns success with payload p the reply is a
\* JSON-RPC result whose content is one text item holding the JSON of p,
\* without isError; when it returns an error with message m the reply is a
\* JSON-RPC result whose text is the JSON of {error: m}, with isError true;
\* neither is a JSON-RPC error and both carry the request's id.
C14_ResultTranslation ==
    res.result # Null
    => /\ res.reply.kind = "result"
       /\ res.id = res.body.id
       /\ Len(res.reply.result.content) = 1
       /\ res.reply.result.content[1].type = "text"
       /\ IF res.result.success
          THEN /\ res.reply.result.content[1].text.json = res.result.data
               /\ "isError" \notin DOMAIN res.reply.result
          ELSE /\ res.reply.result.content[1].text.json = [error |-> res.result.error]
               /\ "isError" \in DOMAIN res.reply.result
               /\ res.reply.result.isError = TRUE

C14_Witness ==
    /\ res.result # Null
    /\ ~res.result.success
    /\ res.reply.kind = "result"
    /\ res.reply.result.isError = TRUE
    /\ res.body.name = ToolName("execute_sql")

\* the text holds a semicolon with something other than white space after it
SemicolonThenMore(s) ==
    \E i \in DOMAIN s : s[i] = ";" /\ trim(SubSeq(s, i + 1, Len(s))) # <<>>

\* C15: execute_sql on a PostgreSQL endpoint whose sql begins with SELECT and
\* holds a semicolon followed by another statement ends, once connected, with
\* an error result whose text holds "Multiple statements not allowed".
C15_MultipleStatementsReason ==
    (/\ call.pc = "done"
     /\ call.adapter = "postgresql"
     /\ call.toolName = "execute_sql"
     /\ call.args.sql.t = "string"
     /\ startsWith(toUpperCase(trim(call.args.sql.s)), KW_SELECT)
     /\ SemicolonThenMore(call.args.sql.s)
     /\ call.result.error # <<"connect failed">>)
    => /\ call.result.status = "error"
       /\ \E i \in DOMAIN call.result.error :
             call.result.error[i] = "Multiple statements not allowed (semicolons are blocked)"

\* the row limit of a query_table statement as the upstream receives it
LimitSent(adapter, statement) ==
    CASE adapter = "postgresql" ->
            statement.text[CHOOSE i \in DOMAIN statement.text :
                              i > 1 /\ statement.text[i - 1] = Code(" LIMIT ")].value
      [] adapter = "mssql" ->
            statement.text[CHOOSE i \in DOMAIN statement.text :
                              i > 1 /\ statement.text[i - 1] = Code(" ROWS FETCH NEXT ")].value
      [] adapter = "mysql" -> statement.values[Len(statement.values) - 1]
      [] adapter = "supabase" ->
            LET n == Len(statement.text)
            IN  plus(minus(statement.text[n].value, statement.text[n - 1].value), Num(1))

\* min(limit, 500) for a positive limit, 50 for one absent, zero or negative
ClampedLimit(limit) ==
    IF limit.t = "number" /\ limit.n > 0
    THEN Num(IF limit.n < MAX_ROWS THEN limit.n ELSE MAX_ROWS)
    ELSE Num(50)

\* C16: the row limit of every query_table statement sent upstream is
\* min(limit, 500) when the limit argument is a positive number and 50 when
\* it is absent, zero or negative, and so lies in 1..500.
C16_LimitClamped ==
    \A i \in DOMAIN upstream :
        (/\ upstream[i].tool = "query_table"
         /\ call.args.limit.t \in {"number", "undefined"}
         /\ call.args.offset.t \in {"number", "undefined"})
        => /\ LimitSent(call.adapter, upstream[i]) = ClampedLimit(call.args.limit)
           /\ LimitSent(call.adapter, upstream[i]).n \in 1..MAX_ROWS

\* the trial counter of each stored credential
StoredCount(rows) == [id \in DOMAIN rows |-> testQueriesUsed(rows[id])]

PaidPlan(subs, organization_id) ==
    /\ organization_id \in DOMAIN subs
    /\ subs[organization_id].status = "active"
    /\ subs[organization_id].plan \in {"starter", "pro", "team", "lifetime"}

\* C18: for an organization with an active subscription on a paid plan no
\* test-connection request is answered limit_reached and none changes the
\* trial counter; for any other organization a request passes the gate only
\* when the counter it read is below the limit.
C18_PaidBypassesTrialGate ==
    /\ [](PaidPlan(subscriptions, Organization)
          => \A c \in Clients : tc[c].reply # "limit_reached")
    /\ [][PaidPlan(subscriptions, Organization)
          => StoredCount(credentials') = StoredCount(credentials)]_vars
    /\ [](~PaidPlan(subscriptions, Organization)
          => \A c \in PassedGate :
                testQueriesUsed(tc[c].credential) < MAX_TEST_QUERIES)

(***************************************************************************)
(* lib/encryption: one string sealed, kept in the store and unsealed       *)
(***************************************************************************)

\* process.env.ENCRYPTION_KEY: the empty string stands for a key that is unset
MasterKeys == {ENCRYPTION_KEY, "old master key"}

Environments == MasterKeys \cup {""}

\* crypto.randomBytes for the salt and for the IV
Salts == {"salt", "other salt"}

IVs == {"iv", "other iv"}

\* the strings handed to encrypt: empty, plain, holding a ':', ill-formed
SealTexts == {PlainText(""), PlainText("secret"), [parts |-> <<"a", "b">>], IllFormed}

\* a string of four parts that encrypt never made
FourParts ==
    LET encrypted == cipherText(<<"", "">>, "", PlainText("c"))
    IN  [parts |-> <<"a", "b", encrypted, getAuthTag(<<"", "">>, "", PlainText("d"))>>]

\* stored strings that were never sealed
PlainStrings == {PlainText(""), PlainText("secret"), [parts |-> <<"a", "b">>], FourParts}

Alterations == {"cut", "extended", "tag", "cipher text", "salt", "iv"}

\* what a writer to the store without the key can make of an envelope
Altered(kind, encryptedText) ==
    LET parts == encryptedText.parts
        other == [parts[3] EXCEPT !.text = PlainText("altered")]
    IN  CASE kind = "cut" -> [parts |-> SubSeq(parts, 1, 3)]
          [] kind = "extended" -> [parts |-> Append(parts, parts[4])]
          [] kind = "tag" -> [parts |-> [parts EXCEPT ![4] = [parts[4] EXCEPT !.tagOf = other]]]
          [] kind = "cipher text" -> [parts |-> [parts EXCEPT ![3] = other]]
          [] kind = "salt" -> [parts |-> [parts EXCEPT ![1] = "altered"]]
          [] kind = "iv" -> [parts |-> [parts EXCEPT ![2] = "altered"]]

\* encrypt as the process runs it: it throws when the key is unset
encryptIn(env, salt, iv, text) ==
    IF env = ""
    THEN Throws(<<"ENCRYPTION_KEY environment variable is not set">>)
    ELSE Returns(encryptUnder(env, salt, iv, text))

\* decrypt as the process runs it: it throws when the key is unset
decryptIn(env, encryptedText) ==
    IF env = ""
    THEN Throws(<<"ENCRYPTION_KEY environment variable is not set">>)
    ELSE decryptUnder(env, encryptedText)

NoOutcome == Throws(<<>>)

EncryptCall ==
    /\ seal.pc = "encrypt"
    /\ LET sealed == encryptIn(seal.master, seal.salt, seal.iv, seal.text)
       IN  seal' = IF sealed.threw
                   THEN [seal EXCEPT !.pc = "failed", !.outcome = sealed]
                   ELSE [seal EXCEPT !.pc = "stored", !.encryptedText = sealed.value]
    /\ UNCHANGED <<guard, connections, setup, gatewayVars, trialVars, adapterVars>>

AlterEnvelope ==
    /\ seal.pc = "stored"
    /\ seal.altered = "no"
    /\ \E kind \in Alterations :
          seal' = [seal EXCEPT !.altered = kind,
                               !.encryptedText = Altered(kind, seal.encryptedText)]
    /\ UNCHANGED <<guard, connections, setup, gatewayVars, trialVars, adapterVars>>

DecryptCall ==
    /\ seal.pc = "stored"
    /\ \E env \in Environments :
          seal' = [seal EXCEPT !.pc = "done", !.env = env,
                               !.outcome = decryptIn(env, seal.encryptedText)]
    /\ UNCHANGED <<guard, connections, setup, gatewayVars, trialVars, adapterVars>>

SealNext == EncryptCall \/ AlterEnvelope \/ DecryptCall

SealInit ==
    /\ seal \in [pc : {"encrypt"}, text : SealTexts, master : Environments,
                 salt : Salts, iv : IVs, encryptedText : {PlainText("")},
                 altered : {"no"}, env : {""}, outcome : {NoOutcome}]
             \cup
                [pc : {"stored"}, text : {PlainText("")}, master : {""},
                 salt : {"salt"}, iv : {"iv"}, encryptedText : PlainStrings,
                 altered : {"never sealed"}, env : {""}, outcome : {NoOutcome}]
    /\ guard = GuardIdle
    /\ mcp_endpoints = EmptyTable
    /\ credentials = EmptyTable
    /\ subscriptions = EmptyTable
    /\ usage_logs = EmptyTable
    /\ now = 0
    /\ req = EmptyTable
    /\ res = NoResponse
    /\ received = 0
    /\ tc = EmptyTable
    /\ tests_run = 0
    /\ call = CallIdle
    /\ upstream = <<>>
    /\ connections = NoConnections
    /\ setup = NoSetup

SpecSeal == SealInit /\ [][SealNext]_vars

\* the tag of an envelope is the tag of its cipher text under the key derived
\* from the master key and its salt, and its IV
TagVerifies(master, encryptedText) ==
    LET parts == encryptedText.parts
    IN  parts[4] = getAuthTag(pbkdf2Sync(master, parts[1]), parts[2], parts[3])

MaxCredentials == 1

\* supported_services.config_schema.fields: key and encrypted
supported_services ==
    [slug \in {"mysql", "supabase"} |->
        IF slug = "mysql"
        THEN {[key |-> "host", encrypted |-> FALSE], [key |-> "port", encrypted |-> FALSE],
              [key |-> "database", encrypted |-> FALSE], [key |-> "user", encrypted |-> FALSE],
              [key |-> "password", encrypted |-> TRUE], [key |-> "ssl", encrypted |-> FALSE]}
        ELSE {[key |-> "url", encrypted |-> FALSE],
              [key |-> "anon_key", encrypted |-> TRUE],
              [key |-> "service_role_key", encrypted |-> TRUE]}]

\* the encryptedFields set: empty when the service has no row
encryptedFieldsOf(serviceSlug) ==
    IF serviceSlug \in DOMAIN supported_services
    THEN {f.key : f \in {g \in supported_services[serviceSlug] : g.encrypted}}
    ELSE {}

\* organization_members: user3 belongs to no organization
organization_members == [user \in {"user1", "user2"} |-> IF user = "user1" THEN "org1" ELSE "org2"]

AuthUsers == {"", "user1", "user2", "user3"}

\* the config objects of the request bodies
SubmittedConfigs == {
    [host |-> PlainText("db.example.com"), password |-> PlainText("secret")],
    [host |-> PlainText("db.example.com"), port |-> Num(3306), password |-> PlainText("")],
    [url |-> [parts |-> <<"https", "//project">>], service_role_key |-> PlainText("service key")] }

\* { name, serviceSlug, config } and { id, name, config }
CreateBodies ==
    {body \in [name : {"db", ""}, serviceSlug : {"mysql", "supabase", "oracle"},
               config : SubmittedConfigs] :
        /\ body.serviceSlug = "supabase" <=> "url" \in DOMAIN body.config
        /\ body.name = "" => body.serviceSlug = "oracle"}

PatchBodies ==
    {body \in [id : {"cred1", "cred2"}, name : {"db", ""}, config : SubmittedConfigs] :
        body.name = "" => body.id = "cred2"}

\* crypto.randomBytes of one encrypt call: salt and IV
Draws == {<<"salt", "iv">>, <<"other salt", "other iv">>}

\* typeof value === 'string' && value.length > 0
storedKeys(config) ==
    {key \in DOMAIN config : "parts" \in DOMAIN config[key] /\ config[key] # PlainText("")}

\* credentials/route.ts lines 73-79: every kept value is encrypted
encryptedConfig(config, draws) ==
    [key \in storedKeys(config) |-> encrypt(draws[key][1], draws[key][2], config[key])]

\* [id]/route.ts lines 174-180 and 291-297: the fields of the set are encrypted
processedConfig(config, encryptedFields, draws) ==
    [key \in storedKeys(config) |->
        IF key \in encryptedFields
        THEN encrypt(draws[key][1], draws[key][2], config[key])
        ELSE config[key]]

\* the rows of credentials.insert and mcp_endpoints.insert
nextId(prefix, table) ==
    IF prefix \o "1" \notin DOMAIN table THEN prefix \o "1"
    ELSE IF prefix \o "2" \notin DOMAIN table THEN prefix \o "2"
    ELSE prefix \o "3"

insertedCredential(id, organization_id, body, config) ==
    [id |-> id, organization_id |-> organization_id, service_slug |-> body.serviceSlug,
     name |-> body.name, config |-> config, is_active |-> TRUE, test_queries_used |-> Null]

insertedEndpoint(id, organization_id, credential_id, serviceSlug) ==
    [id |-> id, organization_id |-> organization_id, credential_id |-> credential_id,
     service_slug |-> serviceSlug, is_active |-> TRUE,
     allowed_tools |-> Null, last_accessed_at |-> Null]

withRow(table, row) ==
    [id \in DOMAIN table \cup {row.id} |-> IF id = row.id THEN row ELSE table[id]]

\* the reply of a credential route, kept with the body it answers
CredentialReply(route, status, id, config) ==
    [route |-> route, status |-> status, id |-> id, config |-> config]

\* the early returns shared by the three handlers: 401, 400, 404
refusal(authUser, complete) ==
    IF authUser = "" THEN 401
    ELSE IF ~complete THEN 400
    ELSE IF authUser \notin DOMAIN organization_members THEN 404
    ELSE 200

\* the fate of the two inserts of a create: both land, the insert of the
\* endpoint fails, or the insert of the credential fails
Writes == {"both", "credential", "none"}

\* credentials.service_slug references supported_services(slug)
insertFails(written, serviceSlug) ==
    written = "none" \/ serviceSlug \notin DOMAIN supported_services

\* credentials.insert, then mcp_endpoints.insert; a failed insert throws and
\* the catch answers 500
Inserted(route, body, organization_id, config, written) ==
    LET credentialId == nextId("cred", credentials)
        endpointId == nextId("ep", mcp_endpoints)
    IN  IF insertFails(written, body.serviceSlug)
        THEN /\ res' = CredentialReply(route, 500, "", body.config)
             /\ UNCHANGED <<credentials, mcp_endpoints>>
        ELSE /\ credentials' = withRow(credentials,
                    insertedCredential(credentialId, organization_id, body, config))
             /\ IF written = "credential"
                THEN /\ res' = CredentialReply(route, 500, "", body.config)
                     /\ UNCHANGED mcp_endpoints
                ELSE /\ mcp_endpoints' = withRow(mcp_endpoints,
                            insertedEndpoint(endpointId, organization_id, credentialId,
                                             body.serviceSlug))
                     /\ res' = CredentialReply(route, 200, credentialId, body.config)

\* the table without the rows of a set of ids
without(table, ids) == [id \in DOMAIN table \ ids |-> table[id]]

\* credentials/route.ts POST
CreateCredential ==
    \E authUser \in AuthUsers, body \in CreateBodies :
        LET route == "POST /api/credentials"
            status == refusal(authUser, body.name # "")
        IN  /\ Cardinality(DOMAIN credentials) < MaxCredentials
            /\ IF status # 200
               THEN /\ res' = CredentialReply(route, status, "", body.config)
                    /\ UNCHANGED <<credentials, mcp_endpoints>>
               ELSE \E written \in Writes, draws \in [storedKeys(body.config) -> Draws] :
                       Inserted(route, body, organization_members[authUser],
                                encryptedConfig(body.config, draws), written)
            /\ UNCHANGED <<subscriptions, usage_logs, now, req, received,
                           trialVars, guardVars, adapterVars>>

\* [id]/route.ts POST: canCreateCredential of lib/usage-limits admits or not
CreateCredentialBySchema ==
    \E authUser \in AuthUsers, body \in CreateBodies :
        LET route == "POST /api/credentials/[id]"
            status == refusal(authUser, body.name # "")
        IN  /\ Cardinality(DOMAIN credentials) < MaxCredentials
            /\ \/ /\ res' = CredentialReply(route, IF status # 200 THEN status ELSE 403,
                                              "", body.config)
                  /\ UNCHANGED <<credentials, mcp_endpoints>>
               \/ /\ status = 200
                  /\ \E written \in Writes, draws \in [storedKeys(body.config) -> Draws] :
                        Inserted(route, body, organization_members[authUser],
                                 processedConfig(body.config,
                                                 encryptedFieldsOf(body.serviceSlug), draws),
                                 written)
            /\ UNCHANGED <<subscriptions, usage_logs, now, req, received,
                           trialVars, guardVars, adapterVars>>

\* [id]/route.ts PATCH
UpdateCredential ==
    \E authUser \in AuthUsers, body \in PatchBodies :
        LET route == "PATCH /api/credentials/[id]"
            status == refusal(authUser, body.name # "")
            existingCred ==
                IF /\ status = 200
                   /\ body.id \in DOMAIN credentials
                   /\ credentials[body.id].organization_id = organization_members[authUser]
                THEN credentials[body.id]
                ELSE Null
        IN  /\ IF status # 200 \/ existingCred = Null
               THEN /\ res' = CredentialReply(route, IF status # 200 THEN status ELSE 404,
                                              "", body.config)
                    /\ UNCHANGED credentials
               ELSE \E draws \in [storedKeys(body.config) -> Draws] :
                    /\ credentials' =
                           [credentials EXCEPT ![body.id].name = body.name,
                                ![body.id].config =
                                    processedConfig(body.config,
                                        encryptedFieldsOf(existingCred.service_slug), draws)]
                    /\ res' = CredentialReply(route, 200, body.id, body.config)
            /\ UNCHANGED <<mcp_endpoints, subscriptions, usage_logs, now, req, received,
                           trialVars, guardVars, adapterVars>>

\* [id]/route.ts DELETE: the delete of the endpoints is not checked, a failed
\* delete of the credential answers 500; a credential that still has an
\* endpoint goes only together with it (mcp_endpoints.credential_id
\* references credentials)
DeleteCredential ==
    \E authUser \in AuthUsers, id \in {"", "cred1", "cred2"} :
        LET route == "DELETE /api/credentials/[id]"
            status == refusal(authUser, id # "")
            existingCred ==
                IF /\ status = 200
                   /\ id \in DOMAIN credentials
                   /\ credentials[id].organization_id = organization_members[authUser]
                THEN credentials[id]
                ELSE Null
            bound == {e \in DOMAIN mcp_endpoints : mcp_endpoints[e].credential_id = id}
        IN  /\ IF status # 200 \/ existingCred = Null
               THEN /\ res' = CredentialReply(route, IF status # 200 THEN status ELSE 404,
                                              "", <<>>)
                    /\ UNCHANGED <<credentials, mcp_endpoints>>
               ELSE \E endpointsDeleted \in BOOLEAN, credentialDeleted \in BOOLEAN :
                    /\ mcp_endpoints' = IF endpointsDeleted \/ credentialDeleted
                                        THEN without(mcp_endpoints, bound)
                                        ELSE mcp_endpoints
                    /\ credentials' = IF credentialDeleted
                                      THEN without(credentials, {id})
                                      ELSE credentials
                    /\ res' = CredentialReply(route, IF credentialDeleted THEN 200 ELSE 500,
                                              id, <<>>)
            /\ UNCHANGED <<subscriptions, usage_logs, now, req, received,
                           trialVars, guardVars, adapterVars>>

CredentialsNext ==
    \/ CreateCredential
    \/ CreateCredentialBySchema
    \/ UpdateCredential
    \/ DeleteCredential

CredentialsInit ==
    /\ credentials = EmptyTable
    /\ mcp_endpoints = EmptyTable
    /\ res = CredentialReply("", 0, "", <<>>)
    /\ subscriptions = EmptyTable
    /\ usage_logs = EmptyTable
    /\ now = 0
    /\ req = EmptyTable
    /\ received = 0
    /\ tc = EmptyTable
    /\ tests_run = 0
    /\ seal = SealIdle
    /\ connections = NoConnections
    /\ setup = NoSetup
    /\ call = CallIdle
    /\ upstream = <<>>
    /\ guard = GuardIdle

SpecCredentials == CredentialsInit /\ [][CredentialsNext]_vars

\* a stored value is a sealed envelope of the text, not the text
SealsText(stored, text) ==
    /\ Len(stored.parts) = 4
    /\ stored # text
    /\ decrypt(stored) = Returns(text)

\* a stored config holds, per field, what the schema of its service asks for
StoredAsDeclared(row, submitted) ==
    \A key \in DOMAIN row.config :
        IF key \in encryptedFieldsOf(row.service_slug)
        THEN SealsText(row.config[key], submitted[key])
        ELSE row.config[key] = submitted[key]

\* C19: every create and every PATCH leaves, in the row it writes, a sealed
\* envelope (never the plaintext) for each field the service's schema declares
\* encrypted and the submitted string itself for each other field.
C19_StoredAsDeclared ==
    [][\A id \in DOMAIN credentials' :
          (id \notin DOMAIN credentials \/ credentials'[id] # credentials[id])
              => StoredAsDeclared(credentials'[id], res'.config)]_vars

\* the same, for the two handlers of [id]/route.ts only
C19_BySchemaRoutes ==
    [][\A id \in DOMAIN credentials' :
          ( /\ id \notin DOMAIN credentials \/ credentials'[id] # credentials[id]
            /\ res'.route # "POST /api/credentials" )
              => StoredAsDeclared(credentials'[id], res'.config)]_vars

(***************************************************************************)
(* test-connection: the deny path                                          *)
(***************************************************************************)

\* the requests that read a counter at the limit, of an organization that
\* has no active subscription on a paid plan
ReadAtLimit ==
    {c \in Clients : /\ tc[c].credential # Null
                     /\ testQueriesUsed(tc[c].credential) >= MAX_TEST_QUERIES
                     /\ ~PaidPlan(subscriptions, Organization)}

\* C22: a test-connection request of an organization without a paid
\* subscription that finds the trial counter at the limit is answered
\* limit_reached with status 403; it never reaches the unsealing of the config
\* or the connection test, and its steps leave the counter and the number of
\* tests run as they were.
C22_DeniedAtLimit ==
    /\ [](\A c \in ReadAtLimit :
             /\ tc[c].pc # "test"
             /\ tc[c].pc = "done" => /\ tc[c].reply = "limit_reached"
                                     /\ statusOfReply(tc[c].reply) = 403)
    /\ [][\A c \in ReadAtLimit :
             tc'[c] # tc[c] => /\ credentials' = credentials
                               /\ tests_run' = tests_run]_vars

C22_Witness ==
    \E c \in ReadAtLimit :
        /\ tc[c].pc = "done"
        /\ tc[c].reply = "limit_reached"
        /\ StoredCount(credentials)["cred1"] = MAX_TEST_QUERIES
        /\ tests_run = 0

\* the requests for which a connection test was begun
TestBegun ==
    {c \in Clients : \/ tc[c].pc = "test"
                     \/ tc[c].reply \in {"success", "connection failed"}}

\* C30: for an organization without a paid subscription a connection test is
\* begun only by a request whose increment of the trial counter was stored,
\* and the number of tests run never exceeds the stored counter.
C30_TestOnlyAfterStoredIncrement ==
    ~PaidPlan(subscriptions, Organization)
        => /\ \A c \in TestBegun : tc[c].stored
           /\ tests_run <= StoredCount(credentials)["cred1"]

(***************************************************************************)
(* SpecConnections: concurrent tool calls of the SQL adapters and the      *)
(* connections they open                                                   *)
(*                                                                         *)
(* A connection is a number; open holds the connections the drivers have   *)
(* open, globalPool the pool that sql.connect of mssql keeps for the       *)
(* process (0 when there is none).                                         *)
(***************************************************************************)

MaxCalls == 2

HandlerCalls == 1..MaxCalls

\* the ways through the switch of a handler
ToolPaths == {"query", "guard rejection", "missing argument", "unknown tool"}

\* new Client / createConnection / a new ConnectionPool: a connection no
\* call has had
newConnection(made) == made + 1

\* sql.connect(config): the global pool when there is one, a new pool else
sqlConnect(globalPool, made) ==
    IF globalPool # 0 THEN globalPool ELSE newConnection(made)

\* the connection a call of an adapter is given
connectionOf(adapter, globalPool, made) ==
    IF adapter = "mssql" THEN sqlConnect(globalPool, made) ELSE newConnection(made)

\* client.connect() in the try (postgresql), createConnection and
\* sql.connect before it (mysql, mssql)
ConnectCall(i) ==
    LET h == connections.handler[i]
        conn == connectionOf(h.adapter, connections.globalPool, connections.made)
    IN  /\ h.pc = "start"
        /\ \E ok \in BOOLEAN :
              connections' =
                IF ok \/ (h.adapter = "mssql" /\ connections.globalPool # 0)
                THEN [connections EXCEPT
                        !.handler[i].pc = "connected",
                        !.handler[i].conn = conn,
                        !.open = @ \cup {conn},
                        !.made = IF conn > @ THEN conn ELSE @,
                        !.globalPool = IF h.adapter = "mssql" THEN conn ELSE @]
                ELSE IF h.adapter = "postgresql"
                THEN [connections EXCEPT !.handler[i].pc = "finally",
                                         !.handler[i].result = Failure(<<"connect failed">>)]
                ELSE [connections EXCEPT !.handler[i].pc = "done",
                                         !.handler[i].result = Raised(<<"connect failed">>)]
        /\ UNCHANGED <<guard, seal, setup, gatewayVars, trialVars, adapterVars>>

\* the switch on the tool name up to its first await, or to its return
EnterSwitch(i) ==
    LET h == connections.handler[i]
    IN  /\ h.pc = "connected"
        /\ \E path \in ToolPaths :
              connections' =
                IF path = "query"
                THEN [connections EXCEPT !.handler[i].pc = "awaiting"]
                ELSE [connections EXCEPT !.handler[i].pc = "finally",
                                         !.handler[i].result = Failure(<<path>>)]
        /\ UNCHANGED <<guard, seal, setup, gatewayVars, trialVars, adapterVars>>

\* the statement is answered: rows, or an error (the only answer of a
\* connection that is no longer open)
QueryAnswered(i) ==
    LET h == connections.handler[i]
    IN  /\ h.pc = "awaiting"
        /\ \E ok \in BOOLEAN :
              connections' =
                [connections EXCEPT
                    !.handler[i].pc = "finally",
                    !.handler[i].result = IF ok /\ h.conn \in connections.open
                                          THEN Success
                                          ELSE Failure(<<"upstream error">>)]
        /\ UNCHANGED <<guard, seal, setup, gatewayVars, trialVars, adapterVars>>

\* the finally block: client.end(), conn.end(), pool.close(); closing the
\* global pool of mssql also forgets it
CloseCall(i) ==
    LET h == connections.handler[i]
    IN  /\ h.pc = "finally"
        /\ connections' =
              [connections EXCEPT
                  !.handler[i].pc = "done",
                  !.open = @ \ {h.conn},
                  !.globalPool = IF h.adapter = "mssql" /\ @ = h.conn THEN 0 ELSE @]
        /\ UNCHANGED <<guard, seal, setup, gatewayVars, trialVars, adapterVars>>

ConnectionsNext ==
    \E i \in HandlerCalls :
        \/ ConnectCall(i)
        \/ EnterSwitch(i)
        \/ QueryAnswered(i)
        \/ CloseCall(i)

ConnectionsInit ==
    /\ \E adapters \in [HandlerCalls -> SqlAdapters] :
          connections =
            [handler |-> [i \in HandlerCalls |->
                            [pc |-> "start", adapter |-> adapters[i], conn |-> 0,
                             result |-> NoResult]],
             open |-> {}, made |-> 0, globalPool |-> 0]
    /\ setup = NoSetup
    /\ guard = GuardIdle
    /\ seal = SealIdle
    /\ mcp_endpoints = EmptyTable
    /\ credentials = EmptyTable
    /\ subscriptions = EmptyTable
    /\ usage_logs = EmptyTable
    /\ now = 0
    /\ req = EmptyTable
    /\ res = NoResponse
    /\ received = 0
    /\ tc = EmptyTable
    /\ tests_run = 0
    /\ call = CallIdle
    /\ upstream = <<>>

SpecConnections == ConnectionsInit /\ [][ConnectionsNext]_vars

\* the calls that were given a connection
Connected == {i \in HandlerCalls : connections.handler[i].conn # 0}

\* C23: the connection of a SQL adapter call is that call's only, it is
\* closed when the adapter has returned, whatever the path, and no
\* connection is open once every call has returned.
C23_ConnectionPerCall ==
    /\ \A i \in Connected :
          connections.handler[i].pc = "done"
              => connections.handler[i].conn \notin connections.open
    /\ \A i \in Connected : \A j \in Connected :
          i # j => connections.handler[i].conn # connections.handler[j].conn
    /\ (\A i \in HandlerCalls : connections.handler[i].pc = "done")
          => connections.open = {}

\* the same, when no two of the calls are calls of the mssql adapter
C23_NoSharedDriverPool ==
    Cardinality({i \in HandlerCalls : connections.handler[i].adapter = "mssql"}) < 2
        => C23_ConnectionPerCall

(***************************************************************************)
(* The gateway: usage records, frame, replies and the daily limit          *)
(***************************************************************************)

\* the handler called for the request returns, or raises, in this step
Returned(request) ==
    /\ request.pc = "calling"
    /\ CopiesIn(request, req') < CopiesIn(request, req)

\* the usage row a tools/call owes: the endpoint's organization, credential
\* and service, the tool, and the status of the handler's result
UsageRecordOf(request, result) ==
    UsageRow(mcp_endpoints[request.endpointId].organization_id,
             mcp_endpoints[request.endpointId].credential_id,
             mcp_endpoints[request.endpointId].service_slug,
             nameOf(request.body.name), result.success, now)

\* C24: a tools/call for which a handler was called sends exactly one insert
\* into usage_logs, whose row names the endpoint's organization, credential
\* and service, the tool, and success exactly when the handler returned
\* success; a step in which no handler call ends leaves usage_logs as it
\* was; the reply is the translation of the handler's result, whether the
\* row landed or not.
C24_OneUsageRecordPerCall ==
    /\ [][/\ \A r \in BagToSet(req) :
                Returned(r)
                => /\ res'.inserted # Null
                   /\ res'.inserted = UsageRecordOf(r, res'.result)
                   /\ usage_logs' = IF res'.logged
                                    THEN usage_logs (+) SetToBag({res'.inserted})
                                    ELSE usage_logs
                   /\ res'.reply.kind = "result"
                   /\ res'.reply = translated(res'.result)
          /\ (\A r \in BagToSet(req) : ~Returned(r)) => usage_logs' = usage_logs]_vars
    /\ [](res.handler = "none" => res.inserted = Null)

\* the same, for the handler calls that return a result
C24_WhenHandlerReturns ==
    /\ [][/\ \A r \in BagToSet(req) :
                (Returned(r) /\ res'.reply.kind # "crash")
                => /\ res'.inserted = UsageRecordOf(r, res'.result)
                   /\ usage_logs' = IF res'.logged
                                    THEN usage_logs (+) SetToBag({res'.inserted})
                                    ELSE usage_logs
                   /\ res'.reply = translated(res'.result)
          /\ (\A r \in BagToSet(req) : ~Returned(r)) => usage_logs' = usage_logs]_vars
    /\ [](res.handler = "none" => res.inserted = Null)

\* the endpoint a handler resolved, with the trial counter of its credential blanked
withoutTrialCounter(endpoint) ==
    IF endpoint = Null \/ endpoint.credentials = Null THEN endpoint
    ELSE [endpoint EXCEPT !.credentials.test_queries_used = Null]

\* C25: no step of the gateway's POST or GET changes a credential (its trial
\* counter included), a subscription, or a column of an endpoint other than
\* last_accessed_at; last_accessed_at changes only on the endpoint resolved
\* by a request handled in that step, usage_logs changes only by one appended
\* row, and what a request is answered does not depend on the trial counter.
C25_GatewayFrame ==
    /\ [][/\ credentials' = credentials
          /\ subscriptions' = subscriptions
          /\ DOMAIN mcp_endpoints' = DOMAIN mcp_endpoints
          /\ \A id \in DOMAIN mcp_endpoints :
                /\ columnsRead(mcp_endpoints'[id]) = columnsRead(mcp_endpoints[id])
                /\ mcp_endpoints'[id].last_accessed_at # mcp_endpoints[id].last_accessed_at
                      => \E r \in BagToSet(req) : Processed(r) /\ r.endpointId = id
          /\ usage_logs \sqsubseteq usage_logs'
          /\ BagCardinality(usage_logs') <= BagCardinality(usage_logs) + 1]_vars
    /\ [](\A r \in BagToSet(req) :
            /\ earlyReply(r.body, r.endpoint) = earlyReply(r.body, withoutTrialCounter(r.endpoint))
            /\ r.pc = "usage"
                  => dispatch(r.body, r.endpoint)
                     = dispatch(r.body, withoutTrialCounter(r.endpoint)))
    /\ [](res.reply.kind = "http"
            => res.reply = healthReply(withoutTrialCounter(lookupEndpoint(mcp_endpoints, credentials,
                                                                          res.endpointId)),
                                       res.endpointId))

\* a free organization's credential whose trial counter is at the limit has
\* served a tools/call through the gateway: the endpoint was touched, a usage
\* row was appended and the counter is as it was
C25_Witness ==
    /\ res.reply.kind = "result"
    /\ res.handler # "none"
    /\ res.logged
    /\ "cred1" \in DOMAIN credentials
    /\ testQueriesUsed(credentials["cred1"]) >= MAX_TEST_QUERIES
    /\ mcp_endpoints["ep1"].last_accessed_at # Null
    /\ ~PaidPlan(subscriptions, Organization)

\* a health check was answered for an endpoint that exists
C25_HealthChecked ==
    /\ res.reply.kind = "http"
    /\ res.reply.code = 200

\* the error codes of the gateway's JSON-RPC errors
ReplyCodes == {-32700, -32600, -32601, -32602, -32000, -32001, -32002, -32003}

JsonRpcReply(reply) ==
    \/ reply.kind \in {"result", "empty"}
    \/ reply.kind = "error" /\ reply.code \in ReplyCodes

\* C28: a POST whose body is valid JSON of any shape is answered once, with a
\* JSON-RPC result, a JSON-RPC error with one of the gateway's codes, or 204;
\* no request ends in an exception that nothing catches.
C28_AlwaysOneJsonRpcReply ==
    /\ []((res.reply.kind # "none" /\ res.body.parsed) => JsonRpcReply(res.reply))
    /\ [][\A r \in BagToSet(req) :
            (CopiesIn(r, req') < CopiesIn(r, req) /\ NoneInvoked)
            => res'.reply.kind # "none" /\ res'.body = r.body]_vars

\* the same for bodies other than null whose handler, if one is called, is
\* not the MySQL handler
C28_ObjectBodies ==
    /\ []((res.reply.kind # "none" /\ res.body.parsed
           /\ res.body.json # "null" /\ res.handler # "handleMysqlTool")
          => JsonRpcReply(res.reply))
    /\ [][\A r \in BagToSet(req) :
            (CopiesIn(r, req') < CopiesIn(r, req) /\ NoneInvoked)
            => res'.reply.kind # "none" /\ res'.body = r.body]_vars

\* a number and an array were answered -32600
C28_ShapesAnswered ==
    /\ res.body.json \in {"number", "array"}
    /\ res.reply.code = -32600

\* the handler calls in flight
Calling == [r \in {q \in BagToSet(req) : q.pc = "calling"} |-> req[r]]

\* C29: before the first midnight the handler calls of the organization, those
\* recorded in usage_logs and those in flight, are never more than the daily
\* limit of its plan, however its concurrent tools/call requests interleave.
C29_DailyLimitUnderConcurrency ==
    (now = 0 /\ dailyLimit(planOf(subscriptions, Organization)) # Unlimited)
    => countSince(usage_logs, Organization, 0) + BagCardinality(Calling)
       <= dailyLimit(planOf(subscriptions, Organization))

\* the endpoints bound to a credential
endpointsOf(id) == {e \in DOMAIN mcp_endpoints : mcp_endpoints[e].credential_id = id}

\* C26: after any creates and deletes, failed writes included, every
\* credential has exactly one endpoint bound to it and every endpoint is
\* bound to a credential that exists.
C26_BornAndDiePaired ==
    /\ \A id \in DOMAIN credentials : Cardinality(endpointsOf(id)) = 1
    /\ \A e \in DOMAIN mcp_endpoints : mcp_endpoints[e].credential_id \in DOMAIN credentials

\* every endpoint is bound to a credential that exists, and no credential has
\* two endpoints
C26_EndpointsBound ==
    /\ \A id \in DOMAIN credentials : Cardinality(endpointsOf(id)) <= 1
    /\ \A e \in DOMAIN mcp_endpoints : mcp_endpoints[e].credential_id \in DOMAIN credentials

\* the keys the field schema of a service declares
schemaKeys(service_slug) == {f.key : f \in supported_services[service_slug]}

\* C27: no create or PATCH changes the service kind of a credential that
\* exists, and the keys of every stored config are among the keys the field
\* schema of the credential's service declares.
C27_KindAndKeys ==
    /\ [][\A id \in DOMAIN credentials \cap DOMAIN credentials' :
            credentials'[id].service_slug = credentials[id].service_slug]_vars
    /\ [](\A id \in DOMAIN credentials :
            /\ credentials[id].service_slug \in DOMAIN supported_services
            /\ DOMAIN credentials[id].config \subseteq schemaKeys(credentials[id].service_slug))

\* the service kind alone: it is the one of the create, a kind that has a
\* schema row, and no step changes it
C27_KindNeverChanges ==
    /\ [][\A id \in DOMAIN credentials \cap DOMAIN credentials' :
            credentials'[id].service_slug = credentials[id].service_slug]_vars
    /\ [](\A id \in DOMAIN credentials :
            credentials[id].service_slug \in DOMAIN supported_services)

(***************************************************************************)
(* SpecSetup: app/api/auth/setup-user, POST                                *)
(*                                                                         *)
(* Every call is for the same auth user; a step is what the handler does   *)
(* between two awaits. The tables are sets of rows; an insert may fail.    *)
(***************************************************************************)

MaxSetupCalls == 2

SetupCalls == 1..MaxSetupCalls

userId == "user1"

SetupReply(status, message) == [status |-> status, message |-> message]

NewSetupCall == [pc |-> "start", org |-> 0, reply |-> SetupReply(0, "")]

ended(i, status, message) ==
    [setup EXCEPT !.call[i].pc = "done", !.call[i].reply = SetupReply(status, message)]

\* lines 7-28: the body is read and the user row is looked up
CheckExisting(i) ==
    /\ setup.call[i].pc = "start"
    /\ \E complete \in BOOLEAN :
          setup' = IF ~complete THEN ended(i, 400, "Missing required fields")
                   ELSE IF userId \in setup.users
                   THEN ended(i, 200, "User already set up")
                   ELSE [setup EXCEPT !.call[i].pc = "organization"]
    /\ UNCHANGED <<guard, seal, connections, gatewayVars, trialVars, adapterVars>>

\* lines 30-47: organizations.insert; the id is the store's
InsertOrganization(i) ==
    /\ setup.call[i].pc = "organization"
    /\ \E ok \in BOOLEAN :
          LET id == Cardinality(setup.organizations) + 1
          IN  setup' = IF ok
                       THEN [setup EXCEPT !.organizations = @ \cup {id},
                                          !.call[i].org = id, !.call[i].pc = "user"]
                       ELSE ended(i, 500, "Failed to create organization")
    /\ UNCHANGED <<guard, seal, connections, gatewayVars, trialVars, adapterVars>>

\* lines 49-60: users.insert with id = userId; users.id is the primary key
InsertUser(i) ==
    /\ setup.call[i].pc = "user"
    /\ \E ok \in BOOLEAN :
          setup' = IF ok /\ userId \notin setup.users
                   THEN [setup EXCEPT !.users = @ \cup {userId}, !.call[i].pc = "member"]
                   ELSE ended(i, 500, "Failed to create user")
    /\ UNCHANGED <<guard, seal, connections, gatewayVars, trialVars, adapterVars>>

\* lines 62-73: organization_members.insert
InsertMember(i) ==
    /\ setup.call[i].pc = "member"
    /\ \E ok \in BOOLEAN :
          setup' = IF ok
                   THEN [setup EXCEPT
                            !.organization_members =
                                @ \cup {[organization_id |-> setup.call[i].org,
                                         user_id |-> userId, role |-> "owner"]},
                            !.call[i].pc = "subscription"]
                   ELSE ended(i, 500, "Failed to create membership")
    /\ UNCHANGED <<guard, seal, connections, gatewayVars, trialVars, adapterVars>>

\* lines 75-90: subscriptions.insert, then the reply
InsertSubscription(i) ==
    /\ setup.call[i].pc = "subscription"
    /\ \E ok \in BOOLEAN :
          setup' = IF ok
                   THEN [ended(i, 200, "User setup complete") EXCEPT
                            !.subscriptions =
                                @ \cup {[organization_id |-> setup.call[i].org,
                                         plan |-> "free", status |-> "active"]}]
                   ELSE ended(i, 500, "Failed to create subscription")
    /\ UNCHANGED <<guard, seal, connections, gatewayVars, trialVars, adapterVars>>

SetupNext ==
    \E i \in SetupCalls :
        \/ CheckExisting(i)
        \/ InsertOrganization(i)
        \/ InsertUser(i)
        \/ InsertMember(i)
        \/ InsertSubscription(i)

SetupInit ==
    /\ setup = [call |-> [i \in SetupCalls |-> NewSetupCall],
                organizations |-> {}, users |-> {}, organization_members |-> {},
                subscriptions |-> {}]
    /\ connections = NoConnections
    /\ guard = GuardIdle
    /\ seal = SealIdle
    /\ mcp_endpoints = EmptyTable
    /\ credentials = EmptyTable
    /\ subscriptions = EmptyTable
    /\ usage_logs = EmptyTable
    /\ now = 0
    /\ req = EmptyTable
    /\ res = NoResponse
    /\ received = 0
    /\ tc = EmptyTable
    /\ tests_run = 0
    /\ call = CallIdle
    /\ upstream = <<>>

SpecSetup == SetupInit /\ [][SetupNext]_vars

\* every call has answered
SetupQuiet == \A i \in SetupCalls : setup.call[i].pc = "done"

\* some call answered that the user is set up
SetupAnswered == \E i \in SetupCalls : setup.call[i].reply.status = 200

membersOf(organization_id) ==
    {m \in setup.organization_members : m.organization_id = organization_id}

\* C21: once every setup-user call for the user has answered, an organization
\* has a member; and if one of them answered that the user is set up, there
\* is one user row, one organization, one owner membership of the user and
\* one subscription, whether the calls overlapped or an earlier one failed.
C21_SetupIdempotent ==
    SetupQuiet
    => /\ \A o \in setup.organizations : membersOf(o) # {}
       /\ SetupAnswered
             => /\ setup.users = {userId}
                /\ Cardinality(setup.organizations) = 1
                /\ Cardinality({m \in setup.organization_members :
                                  m.user_id = userId /\ m.role = "owner"}) = 1
                /\ Cardinality(setup.subscriptions) = 1

\* at most one call answers that the setup is complete, and the organization
\* of that call has its owner and its subscription
C21_OneCompleteSetup ==
    LET complete == {i \in SetupCalls : setup.call[i].reply.message = "User setup complete"}
    IN  /\ Cardinality(complete) <= 1
        /\ \A i \in complete :
              /\ userId \in setup.users
              /\ membersOf(setup.call[i].org)
                    = {[organization_id |-> setup.call[i].org, user_id |-> userId,
                        role |-> "owner"]}
              /\ [organization_id |-> setup.call[i].org, plan |-> "free",
                  status |-> "active"] \in setup.subscriptions

====
